---- MODULE Spec2Model ----
(***************************************************************************)
(* ELITE SOC ANALYZER: the detection pipeline of core/analysis_engine.py   *)
(* (parse -> baseline -> per-entity correlation -> dedup -> time pressure  *)
(* -> statistics), with its collaborators: the line parser, the static     *)
(* threat-intelligence tables, the anomaly scorer, the risk and confidence *)
(* scorers, the incident store and the injected cognitive subsystems.      *)
(*                                                                         *)
(* Units.  Time is in seconds.  Every value that the code holds as a float *)
(* in [0,1] (anomaly score, pain index, breach clock, data quality,        *)
(* behavioural consistency) is held in hundredths, 0..100.                 *)
(***************************************************************************)
EXTENDS Integers, Sequences, FiniteSets, TLC

VARIABLES
    tz,          \* offset of the host's local time from UTC, seconds
    clock,       \* the UTC wall clock, seconds
    memory,      \* self.memory: whether one is injected, and its memories
    time_engine, \* self.time_engine: whether one is injected, and its breach_clock
    mutation,    \* self.mutation: whether one is injected, and its state
    pc,          \* position inside analyze_file
    file,        \* the lines of the file under analysis
    events,      \* the events _parse_file returned
    baselines,   \* self.ml.baselines
    ip_map,      \* _correlate: IPs in first-seen order
    user_map,    \* _correlate: users in first-seen order
    idx,         \* loop index of the running loop
    alerts,      \* the alert list being built or processed
    returned,    \* per analysed IP: what _analyze_ip returned and what it saw
    seen,        \* _deduplicate: last kept time per key
    unique,      \* _deduplicate: the alerts kept so far
    processed,   \* _deduplicate: for every input alert, when it was processed
    before,      \* the alert list handed to _apply_time_pressure
    stats,       \* self.stats
    incidents,   \* the rows of the incidents table
    scorer,      \* scorer harness: the arguments drawn and the values returned
    intel,       \* threat-intel harness: the lookup drawn, the cache, the results
    calls        \* _correlate: the analyses invoked, with the group each was given

vars == <<tz, clock, memory, time_engine, mutation, pc, file, events, baselines,
          ip_map, user_map, idx, alerts, returned, seen, unique, processed,
          before, stats, incidents, scorer, intel, calls>>

NoValue == "-"

----------------------------------------------------------------------------
(* Configuration: config.py *)

FAILED_LOGIN_THRESHOLD == 5
FAILED_LOGIN_WINDOW_MINUTES == 5
ACCOUNT_IP_THRESHOLD == 3
WEIGHT_FAILED_AUTH == 6
WEIGHT_PORT_SCAN == 4
WEIGHT_GEO_RISK == 20
WEIGHT_THREAT_INTEL == 30
WEIGHT_TOR_EXIT == 25
MAX_RISK_SCORE == 100
FP_SUCCESSFUL_LOGIN_THRESHOLD == 3
ALERT_DEDUP_WINDOW_MINUTES == 60
ANOMALY_THRESHOLD == 75
BREACH_PROBABILITY_WARNING == 60
ENABLE_FP_REDUCTION == TRUE
ENABLE_ALERT_DEDUPLICATION == TRUE
ENABLE_ML_ANOMALY_DETECTION == TRUE
ENABLE_LIVE_THREAT_INTEL == FALSE
GEO_RISK_COUNTRIES == {"RU", "CN", "KP", "IR", "SY", "AF", "IQ", "BY", "VE"}

\* timedelta(minutes = m) in seconds
timedelta_minutes(m) == m * 60

\* the text of an INGEST_TIME is held as the second it denotes; a text that
\* datetime.fromisoformat rejects is held as NotIsoformat, below every second
\* of the model
NotIsoformat == 0 - 86400 * 365

\* datetime.fromisoformat(t) raises ValueError
fromisoformat_raises(t) == t = NotIsoformat

----------------------------------------------------------------------------
(* Arithmetic helpers *)

Min(a, b) == IF a <= b THEN a ELSE b
Max(a, b) == IF a >= b THEN a ELSE b

\* int(a / b) of Python for b > 0: truncation toward zero
TruncDiv(a, b) == IF a >= 0 THEN a \div b ELSE -((-a) \div b)

\* round(a / b, 0) of Python for a >= 0, b > 0: to nearest, ties to even
RoundDiv(a, b) ==
    LET q == a \div b
        r == a % b
    IN  IF 2 * r < b THEN q
        ELSE IF 2 * r > b THEN q + 1
        ELSE IF q % 2 = 0 THEN q ELSE q + 1

RECURSIVE SumSeq(_)
SumSeq(s) == IF s = <<>> THEN 0 ELSE Head(s) + SumSeq(Tail(s))

Range(s) == {s[i] : i \in 1..Len(s)}

RECURSIVE Distinct(_)
\* the distinct elements of s in order of first occurrence (dict key order)
Distinct(s) ==
    IF s = <<>> THEN <<>>
    ELSE LET d == Distinct(SubSeq(s, 1, Len(s) - 1))
             x == s[Len(s)]
         IN  IF x \in Range(d) THEN d ELSE Append(d, x)

----------------------------------------------------------------------------
(* parser.py: LogParser.  A line is held by what the regular expressions   *)
(* find in it: whether the syslog envelope matches, which detection        *)
(* patterns match its message, and the text their groups capture.          *)

\* self.patterns, in the insertion order of the dict
PatternOrder ==
    << "SSH_FAILED_PASSWORD", "SSH_ACCEPTED_PASSWORD", "SSH_INVALID_USER",
       "AUTH_FAILURE", "FIREWALL_BLOCK", "PORT_SCAN", "CONNECTION_ATTEMPT",
       "SQL_INJECTION", "XSS_ATTACK", "WEB_LOGIN_FAILURE", "BRUTE_FORCE",
       "DOS_ATTACK" >>

\* the patterns that have a (?P<user>...) group
UserPatterns == {"SSH_FAILED_PASSWORD", "SSH_ACCEPTED_PASSWORD", "SSH_INVALID_USER"}

(* A line is what the regular expressions make of it: env, the syslog        *)
(* envelope matches; pats, the patterns that match the message; ip and user, *)
(* the text their groups capture, or ips, the ip captured by each pattern    *)
(* when the patterns capture different ones; blank, the line is empty.       *)

\* `not line`: the line is the empty string
is_blank(line) == "blank" \in DOMAIN line

\* match.groupdict() of a pattern that matches the message of the line
groupdict(p, line) ==
    [ip |-> IF "ips" \in DOMAIN line THEN line.ips[p] ELSE line.ip,
     user |-> IF p \in UserPatterns THEN line.user ELSE NoValue]

\* a parse_line in which every pattern that matches overwrites the event, so
\* that the last one wins
parse_line_last_match(line, local_now) ==
    LET hits == SelectSeq(PatternOrder, LAMBDA p : p \in line.pats)
        last == hits[Len(hits)]
    IN  IF is_blank(line) THEN <<>>
        ELSE IF hits # <<>>
        THEN << [EVENT_TYPE |-> last,
                 ip |-> groupdict(last, line).ip,
                 user |-> groupdict(last, line).user,
                 INGEST_TIME |-> local_now] >>
        ELSE IF line.env
        THEN << [EVENT_TYPE |-> "SYSLOG_GENERIC", ip |-> NoValue, user |-> NoValue,
                 INGEST_TIME |-> local_now] >>
        ELSE <<>>

\* a parse_line that tags every line no pattern matches as SYSLOG_GENERIC
parse_line_always_generic(line, local_now) ==
    LET hits == SelectSeq(PatternOrder, LAMBDA p : p \in line.pats)
    IN  IF is_blank(line) THEN <<>>
        ELSE IF hits # <<>>
        THEN << [EVENT_TYPE |-> Head(hits),
                 ip |-> groupdict(Head(hits), line).ip,
                 user |-> groupdict(Head(hits), line).user,
                 INGEST_TIME |-> local_now] >>
        ELSE << [EVENT_TYPE |-> "SYSLOG_GENERIC", ip |-> NoValue, user |-> NoValue,
                 INGEST_TIME |-> local_now] >>

\* LogParser.parse_line: zero or one event (None is the empty sequence), stamped
\* with datetime.now(), the host's LOCAL time
parse_line(line, local_now) ==
    LET hits == SelectSeq(PatternOrder, LAMBDA p : p \in line.pats)
    IN  IF is_blank(line) THEN <<>>
        ELSE IF hits # <<>>
        THEN << [EVENT_TYPE |-> Head(hits),
                 ip |-> groupdict(Head(hits), line).ip,
                 user |-> groupdict(Head(hits), line).user,
                 INGEST_TIME |-> local_now] >>
        ELSE IF line.env
        THEN << [EVENT_TYPE |-> "SYSLOG_GENERIC", ip |-> NoValue, user |-> NoValue,
                 INGEST_TIME |-> local_now] >>
        ELSE <<>>

\* "FAILED" in e.get("EVENT_TYPE", ""): of the event types the parser can
\* produce, only SSH_FAILED_PASSWORD contains the substring FAILED
\* (AUTH_FAILURE and WEB_LOGIN_FAILURE do not)
HasFAILED(event_type) == event_type \in {"SSH_FAILED_PASSWORD"}

\* "ACCEPTED" in e.get("EVENT_TYPE", "")
HasACCEPTED(event_type) == event_type \in {"SSH_ACCEPTED_PASSWORD"}

RECURSIVE parse_file(_, _, _, _, _)
\* AnalysisEngine._parse_file from line k on: line k is parsed at UTC time t, the
\* next one gap seconds later; offset is the host's offset from UTC
parse_file(lines, k, t, gap, offset) ==
    IF k > Len(lines) THEN <<>>
    ELSE LET parsed == parse_line(lines[k], t + offset)
             rest == parse_file(lines, k + 1, t + gap, gap, offset)
         IN  IF parsed = <<>> THEN rest
             ELSE <<parsed[1] @@ [LINE_NUMBER |-> k]>> \o rest

----------------------------------------------------------------------------
(* threat_intel.py: ThreatIntelligence, static feeds (live lookups are off *)
(* in config.py: ENABLE_LIVE_THREAT_INTEL = False).                        *)

malicious_ips == {"185.210.45.22", "94.102.61.24", "45.155.205.233",
                  "91.240.118.123", "198.98.51.189", "104.244.74.55"}

tor_exit_nodes == {"185.220.100.254", "185.220.101.4", "185.220.101.8"}

\* LiveThreatIntel.cache_expiry, in seconds
cache_expiry == 24 * 3600

\* a cache whose entries are still served when they are exactly 24 hours old
cache_hit_at_expiry(cache, key, now) ==
    key \in DOMAIN cache /\ now - cache[key].ts <= cache_expiry

\* the cached result of a key that has not expired at the local time now
cache_hit(cache, key, now) ==
    key \in DOMAIN cache /\ now - cache[key].ts < cache_expiry

\* the cache with a result filed under a key at the local time now
cache_put(cache, key, data, now) ==
    [k \in DOMAIN cache \cup {key} |->
        IF k = key THEN [data |-> data, ts |-> now] ELSE cache[k]]

(* What a provider answers to requests.get: kind is "timeout" or "exception" *)
(* when the call raises, else "response" with its status; of the body of a   *)
(* 200: json (it is a JSON object), path (the object the result is read from *)
(* is there: "data" for AbuseIPDB, data.attributes.last_analysis_stats for   *)
(* VirusTotal), field (the score is in it) and the score.                    *)

\* a check_abuseipdb that reads the body of an answer whatever its status
check_abuseipdb_any_status(enabled, cache, now, ip, resp) ==
    LET key == <<"ABUSE", ip>>
        none == [ret |-> <<>>, cache |-> cache, warned |-> FALSE, called |-> FALSE]
        fail == [none EXCEPT !.called = TRUE]
        result == [CONFIDENCE_SCORE |->
                      IF resp.path /\ resp.field THEN resp.score ELSE 0]
    IN  IF ~enabled THEN none
        ELSE IF cache_hit(cache, key, now)
        THEN [none EXCEPT !.ret = <<cache[key].data>>]
        ELSE IF resp.kind # "response" THEN [fail EXCEPT !.warned = TRUE]
        ELSE IF ~resp.json THEN [fail EXCEPT !.warned = TRUE]
        ELSE [ret |-> <<result>>, cache |-> cache_put(cache, key, result, now),
              warned |-> FALSE, called |-> TRUE]

\* LiveThreatIntel.check_abuseipdb: ret is <<>> for None, else <<result>>
check_abuseipdb(enabled, cache, now, ip, resp) ==
    LET key == <<"ABUSE", ip>>
        none == [ret |-> <<>>, cache |-> cache, warned |-> FALSE, called |-> FALSE]
        fail == [none EXCEPT !.called = TRUE]
        result == [CONFIDENCE_SCORE |->
                      IF resp.path /\ resp.field THEN resp.score ELSE 0]
    IN  IF ~enabled THEN none
        ELSE IF cache_hit(cache, key, now)
        THEN [none EXCEPT !.ret = <<cache[key].data>>]
        ELSE IF resp.kind # "response" THEN [fail EXCEPT !.warned = TRUE]
        ELSE IF resp.status # 200 THEN fail
        ELSE IF ~resp.json THEN [fail EXCEPT !.warned = TRUE]
        ELSE [ret |-> <<result>>, cache |-> cache_put(cache, key, result, now),
              warned |-> FALSE, called |-> TRUE]

\* LiveThreatIntel.check_virustotal: a body without the path raises KeyError
\* inside the try
check_virustotal(enabled, cache, now, ip, resp) ==
    LET key == <<"VT", ip>>
        none == [ret |-> <<>>, cache |-> cache, warned |-> FALSE, called |-> FALSE]
        fail == [none EXCEPT !.called = TRUE]
        result == [MALICIOUS |-> IF resp.field THEN resp.score ELSE 0]
    IN  IF ~enabled THEN none
        ELSE IF cache_hit(cache, key, now)
        THEN [none EXCEPT !.ret = <<cache[key].data>>]
        ELSE IF resp.kind # "response" THEN [fail EXCEPT !.warned = TRUE]
        ELSE IF resp.status # 200 THEN fail
        ELSE IF ~resp.json \/ ~resp.path THEN [fail EXCEPT !.warned = TRUE]
        ELSE [ret |-> <<result>>, cache |-> cache_put(cache, key, result, now),
              warned |-> FALSE, called |-> TRUE]

\* ThreatIntelligence.check_ip_reputation with the live lookups as enabled:
\* the threats, the two provider results and the cache afterwards
ip_reputation(enabled, cache, now, ip, abuse_resp, vt_resp) ==
    LET static == (IF ip \in malicious_ips THEN <<"KNOWN_MALICIOUS_IP">> ELSE <<>>)
                  \o (IF ip \in tor_exit_nodes THEN <<"TOR_EXIT_NODE">> ELSE <<>>)
        abuse == check_abuseipdb(enabled, cache, now, ip, abuse_resp)
        vt == check_virustotal(enabled, abuse.cache, now, ip, vt_resp)
    IN  IF ~enabled
        THEN [threats |-> static, abuse |-> <<>>, vt |-> <<>>, cache |-> cache,
              abuse_called |-> FALSE, vt_called |-> FALSE]
        ELSE [threats |->
                static
                \o (IF abuse.ret # <<>> /\ abuse.ret[1].CONFIDENCE_SCORE >= 70
                    THEN <<"LIVE_ABUSEIPDB_MATCH">> ELSE <<>>)
                \o (IF vt.ret # <<>> /\ vt.ret[1].MALICIOUS >= 3
                    THEN <<"LIVE_VIRUSTOTAL_MATCH">> ELSE <<>>),
              abuse |-> abuse.ret, vt |-> vt.ret, cache |-> vt.cache,
              abuse_called |-> abuse.called, vt_called |-> vt.called]

\* no answer: the provider is not asked
NoResponse ==
    [kind |-> "none", status |-> 0, json |-> FALSE, path |-> FALSE,
     field |-> FALSE, score |-> 0]

\* the threats check_ip_reputation reports under config.py, where the live
\* lookups are off
check_ip_reputation(ip) ==
    ip_reputation(ENABLE_LIVE_THREAT_INTEL, <<>>, 0, ip, NoResponse, NoResponse).threats

get_geoip_info(ip) ==
    CASE ip = "185.210.45.22" -> [COUNTRY |-> "RU", CITY |-> "MOSCOW"]
      [] ip = "45.155.205.233" -> [COUNTRY |-> "IR", CITY |-> "TEHRAN"]
      [] ip = "8.8.8.8" -> [COUNTRY |-> "US", CITY |-> "MOUNTAIN VIEW"]
      [] OTHER -> [COUNTRY |-> "UNKNOWN", CITY |-> "UNKNOWN"]

----------------------------------------------------------------------------
(* risk_engine.py.  ml_anomaly_score, data_quality, behavioral_consistency *)
(* are in hundredths; the sums are formed in hundredths and int() is taken *)
(* at the end, as the code does on its floats.                             *)

\* a risk score without the cap
calculate_risk_score_uncapped(failed_attempts, port_scans, geo_risk, threat_intel, tor_exit, successful_after_failed, unique_users, time_window_events, ml_anomaly_score) ==
    TruncDiv(100 * ( failed_attempts * WEIGHT_FAILED_AUTH
                   + port_scans * WEIGHT_PORT_SCAN
                   + (IF geo_risk THEN WEIGHT_GEO_RISK ELSE 0)
                   + (IF threat_intel THEN WEIGHT_THREAT_INTEL ELSE 0)
                   + (IF tor_exit THEN WEIGHT_TOR_EXIT ELSE 0)
                   + (IF successful_after_failed THEN 15 ELSE 0)
                   + (IF unique_users >= 3 THEN 10 + unique_users * 2 ELSE 0)
                   + (IF time_window_events > 20 THEN 20 ELSE 0) )
             + ml_anomaly_score * 30, 100)

calculate_risk_score(failed_attempts, port_scans, geo_risk, threat_intel, tor_exit, successful_after_failed, unique_users, time_window_events, ml_anomaly_score) ==
    LET score == 100 * ( failed_attempts * WEIGHT_FAILED_AUTH
                       + port_scans * WEIGHT_PORT_SCAN
                       + (IF geo_risk THEN WEIGHT_GEO_RISK ELSE 0)
                       + (IF threat_intel THEN WEIGHT_THREAT_INTEL ELSE 0)
                       + (IF tor_exit THEN WEIGHT_TOR_EXIT ELSE 0)
                       + (IF successful_after_failed THEN 15 ELSE 0)
                       + (IF unique_users >= 3 THEN 10 + unique_users * 2 ELSE 0)
                       + (IF time_window_events > 20 THEN 20 ELSE 0) )
                 + ml_anomaly_score * 30
    IN  Min(TruncDiv(score, 100), 100)

calculate_confidence_level(data_quality, threat_intel_match, behavioral_consistency, false_positive_indicators) ==
    LET confidence == 100 * 50
                      + data_quality * 20
                      + (IF threat_intel_match THEN 100 * 25 ELSE 0)
                      + behavioral_consistency * 20
                      - 100 * (false_positive_indicators * 10)
    IN  Max(10, Min(TruncDiv(confidence, 100), 100))

----------------------------------------------------------------------------
(* ml_engine.py: MLAnomalyDetector.  The means and ratios are kept as      *)
(* numerator and denominator and compared by cross-multiplication.         *)

NoBaselines == [built |-> FALSE, ip_sum |-> 0, ip_n |-> 0, user_sum |-> 0,
                user_n |-> 0, type_count |-> <<>>, total_events |-> 0]

\* MLAnomalyDetector.build_baseline: the dict has its three keys afterwards,
\* whatever the events
build_baseline(evs) ==
    LET with_ip == SelectSeq(evs, LAMBDA e : e.ip # NoValue)
        with_user == SelectSeq(evs, LAMBDA e : e.user # NoValue)
        types == {evs[i].EVENT_TYPE : i \in 1..Len(evs)}
    IN  [built |-> TRUE,
         ip_sum |-> Len(with_ip),
         ip_n |-> Cardinality({with_ip[i].ip : i \in 1..Len(with_ip)}),
         user_sum |-> Len(with_user),
         user_n |-> Cardinality({with_user[i].user : i \in 1..Len(with_user)}),
         type_count |-> [t \in types |-> Len(SelectSeq(evs, LAMBDA e : e.EVENT_TYPE = t))],
         total_events |-> Len(evs)]

RECURSIVE time_diffs(_)
\* the gaps between consecutive events, in the order given
time_diffs(stamps) ==
    IF Len(stamps) < 2 THEN <<>>
    ELSE <<stamps[2] - stamps[1]>> \o time_diffs(Tail(stamps))

\* a frequency indicator that tests the share of the events instead of their
\* count: it falls once the group outgrows the population
frequency_spike_by_share(evs, b) ==
    /\ Len(evs) * Max(b.ip_n, 1) > b.ip_sum * 3
    /\ Len(evs) <= b.ip_sum + 3

\* the frequency indicator of detect_anomalies: event_count > expected_freq * 3
frequency_spike(evs, b) == Len(evs) * Max(b.ip_n, 1) > b.ip_sum * 3

\* what the frequency indicator adds to the score, in hundredths
frequency_contribution(evs, b) == IF frequency_spike(evs, b) THEN 30 ELSE 0

\* the number of event types of evs whose ratio exceeds 4 times the baseline
\* ratio (0.1 for a type the baseline has not seen)
distribution_skew(evs, b) ==
    LET types == {evs[i].EVENT_TYPE : i \in 1..Len(evs)}
        count(t) == Len(SelectSeq(evs, LAMBDA e : e.EVENT_TYPE = t))
        skewed(t) ==
            IF t \in DOMAIN b.type_count
            THEN count(t) * b.total_events > b.type_count[t] * 4 * Max(Len(evs), 1)
            ELSE count(t) * 10 > 4 * Max(Len(evs), 1)
    IN  Cardinality({t \in types : skewed(t)})

\* the timing indicator: at least 3 events and an average gap below 5 seconds
rapid_activity(evs) ==
    LET stamps == [i \in 1..Len(evs) |-> evs[i].INGEST_TIME]
        diffs == time_diffs(stamps)
    IN  /\ Len(evs) >= 3
        /\ Len(stamps) >= 2
        /\ SumSeq(diffs) < 5 * Max(Len(diffs), 1)

\* detect_anomalies raises: the timing indicator parses every INGEST_TIME of
\* a group of at least 3 events, outside any try
detect_anomalies_raises(evs, b) ==
    /\ ENABLE_ML_ANOMALY_DETECTION
    /\ b.built
    /\ Len(evs) >= 3
    /\ \E i \in 1..Len(evs) : fromisoformat_raises(evs[i].INGEST_TIME)

\* a detector that learns from every group it scores
baseline_after_learning(b, evs) ==
    [b EXCEPT !.ip_sum = @ + 3 * Len(evs), !.total_events = @ + 3 * Len(evs)]

\* self.baselines once detect_anomalies has scored a group: as it was, the
\* function only reads it
baseline_after(b, evs) == b

\* MLAnomalyDetector.detect_anomalies, in hundredths.  The float sum of the
\* code differs from the exact one only for 0.3 + 0.2 + 0.2 + 0.2 (a frequency
\* spike, three skewed event types, no rapid activity), which takes three
\* event types in one IP's events; the logs modelled have at most two.
detect_anomalies(ip, evs, b) ==
    IF ~ENABLE_ML_ANOMALY_DETECTION \/ ~b.built THEN 0
    ELSE Min( frequency_contribution(evs, b)
            + 20 * distribution_skew(evs, b)
            + (IF rapid_activity(evs) THEN 30 ELSE 0), 100)

----------------------------------------------------------------------------
(* memory/experience_memory.py, brains/time/time_engine.py,                *)
(* evolution/self_mutation.py: what the engine reads and calls.            *)

\* ExperienceMemory.pain_index, in hundredths: round(pain / (len * 10), 2)
pain_index(memories) ==
    IF memories = <<>> THEN 0
    ELSE LET pain == SumSeq([i \in 1..Len(memories) |->
                        IF memories[i].category \in {"breach", "near-miss"}
                        THEN memories[i].severity ELSE 0])
         IN  RoundDiv(pain * 100, Len(memories) * 10)

\* SelfMutationEngine.observe_regret: pressure + 0.15, at most 1.0; one record
observe_regret(m) ==
    [m EXCEPT !.evolution_pressure = Min(@ + 15, 100), !.mutation_history = @ + 1]

\* SelfMutationEngine.observe_success: pressure - 0.05, at least 0.1;
\* maturity + 0.02, at most 5.0
observe_success(m) ==
    [m EXCEPT !.evolution_pressure = Max(@ - 5, 10),
              !.maturity_level = Min(@ + 2, 500)]

----------------------------------------------------------------------------
(* storage/database.py *)

\* upsert_incident: INSERT ... ON CONFLICT(alert_id) DO UPDATE SET
\* incident_state, confidence, risk_score, feedback, last_seen, updated_at
upsert_incident(rows, alert, now) ==
    LET source == IF "SOURCE_IP" \in DOMAIN alert THEN alert.SOURCE_IP
                  ELSE alert.USERNAME
        row == [alert_id |-> alert.ALERT_ID,
                threat_type |-> alert.THREAT_TYPE,
                severity |-> alert.THREAT_LEVEL,
                source |-> source,
                incident_state |-> alert.INCIDENT_STATE,
                confidence |-> alert.CONFIDENCE,
                risk_score |-> alert.RISK_SCORE,
                created_at |-> now,
                updated_at |-> now]
        hit == {i \in 1..Len(rows) : rows[i].alert_id = alert.ALERT_ID}
    IN  IF hit = {} THEN Append(rows, row)
        ELSE [i \in 1..Len(rows) |->
                IF i \in hit
                THEN [rows[i] EXCEPT !.incident_state = row.incident_state,
                                     !.confidence = row.confidence,
                                     !.risk_score = row.risk_score,
                                     !.updated_at = now]
                ELSE rows[i]]

----------------------------------------------------------------------------
(* core/analysis_engine.py: AnalysisEngine *)

\* _alert_id: md5 of the seed and the time of the call, held as the pair hashed
alert_id(seed, now) == <<seed, now>>

\* a classification with HIGH from 70 on
classify_threat_high_from_70(risk) ==
    IF risk >= 80 THEN "CRITICAL"
    ELSE IF risk >= 70 THEN "HIGH"
    ELSE "MEDIUM"

\* _classify_threat
classify_threat(risk) ==
    IF risk >= 80 THEN "CRITICAL"
    ELSE IF risk >= 60 THEN "HIGH"
    ELSE "MEDIUM"

\* the windowed subset of _analyze_ip: INGEST_TIME (local) > now (UTC) - window;
\* an event whose INGEST_TIME does not parse is skipped (except: continue)
recent_events(evs, now) ==
    SelectSeq(evs, LAMBDA e :
        /\ ~fromisoformat_raises(e.INGEST_TIME)
        /\ e.INGEST_TIME > now - timedelta_minutes(FAILED_LOGIN_WINDOW_MINUTES))

\* a suppression branch with the bound of the legacy engine on failed
fp_suppressed_legacy(success, failed, pain_bias) ==
    /\ ENABLE_FP_REDUCTION
    /\ success >= FP_SUCCESSFUL_LOGIN_THRESHOLD
    /\ failed < 2 * FAILED_LOGIN_THRESHOLD
    /\ pain_bias < 30

\* a suppression branch that needs more accepted logins than the threshold
fp_suppressed_strict(success, failed, pain_bias) ==
    /\ ENABLE_FP_REDUCTION
    /\ success > FP_SUCCESSFUL_LOGIN_THRESHOLD
    /\ failed < FAILED_LOGIN_THRESHOLD
    /\ pain_bias < 30

\* the suppression branch of _analyze_ip
fp_suppressed(success, failed, pain_bias) ==
    /\ ENABLE_FP_REDUCTION
    /\ success >= FP_SUCCESSFUL_LOGIN_THRESHOLD
    /\ failed < FAILED_LOGIN_THRESHOLD
    /\ pain_bias < 30

\* the detection branch of _analyze_ip
brute_force_detected(failed) == failed >= FAILED_LOGIN_THRESHOLD

\* the breach-clock adjustment of the risk inside _analyze_ip
pressured_risk(risk, te) ==
    IF te.injected /\ te.breach_clock > 60
    THEN Min(risk + 10, MAX_RISK_SCORE)
    ELSE risk

\* _analyze_ip: what it returns, with what it computed on the way; raised
\* when the exception of detect_anomalies leaves it instead
analyze_ip_with(fp_reduction, ip, evs, now, b, mem, te) ==
    LET recent == recent_events(evs, now)
        failed == Len(SelectSeq(recent, LAMBDA e : HasFAILED(e.EVENT_TYPE)))
        success == Len(SelectSeq(evs, LAMBDA e : HasACCEPTED(e.EVENT_TYPE)))
        threats == check_ip_reputation(ip)
        geo == get_geoip_info(ip)
        raised == ENABLE_ML_ANOMALY_DETECTION /\ detect_anomalies_raises(evs, b)
        ml_score == IF ENABLE_ML_ANOMALY_DETECTION /\ ~raised
                    THEN detect_anomalies(ip, evs, b) ELSE 0
        anomaly == ENABLE_ML_ANOMALY_DETECTION /\ ml_score >= ANOMALY_THRESHOLD
        pain_bias == IF mem.injected THEN pain_index(mem.memories) ELSE 0
        suppressed == ~raised /\ fp_reduction
                      /\ fp_suppressed(success, failed, pain_bias)
        risk == pressured_risk(
                    calculate_risk_score(failed, 0, geo.COUNTRY \in GEO_RISK_COUNTRIES,
                                         threats # <<>>, FALSE, FALSE, 0, 0, ml_score),
                    te)
        confidence == calculate_confidence_level(
                          90, threats # <<>>, IF ml_score > 50 THEN 60 ELSE 100, 0)
        alert == [ALERT_ID |-> alert_id(ip, now),
                  INCIDENT_STATE |-> "OPEN",
                  CATEGORY |-> "AUTHENTICATION",
                  THREAT_TYPE |-> "SSH_BRUTE_FORCE",
                  THREAT_LEVEL |-> classify_threat(risk),
                  SOURCE_IP |-> ip,
                  FAILED_ATTEMPTS |-> failed,
                  SUCCESSFUL_LOGINS |-> success,
                  RISK_SCORE |-> risk,
                  CONFIDENCE |-> confidence,
                  ML_ANOMALY_SCORE |-> ml_score,
                  GEO_COUNTRY |-> geo.COUNTRY,
                  FIRST_SEEN |-> evs[1].INGEST_TIME,
                  LAST_SEEN |-> evs[Len(evs)].INGEST_TIME]
    IN  [ip |-> ip, now |-> now, failed |-> failed, success |-> success,
         ml_score |-> ml_score, anomaly |-> anomaly, pain_bias |-> pain_bias,
         suppressed |-> suppressed, raised |-> raised,
         alerts |-> IF ~raised /\ ~suppressed /\ brute_force_detected(failed)
                    THEN <<alert>> ELSE <<>>]

\* _analyze_ip under config.py
analyze_ip(ip, evs, now, b, mem, te) ==
    analyze_ip_with(ENABLE_FP_REDUCTION, ip, evs, now, b, mem, te)

\* SOC_ENGINE AnalysisEngine._analyze_ip, the legacy engine: the window filter
\* has no try, the suppression branch compares failed with the literal 10 and
\* reads no pain index, the level is CRITICAL or HIGH
legacy_analyze_ip(ip, evs, now, b) ==
    LET raised == \E i \in 1..Len(evs) : fromisoformat_raises(evs[i].INGEST_TIME)
        recent == recent_events(evs, now)
        failed == Len(SelectSeq(recent, LAMBDA e : HasFAILED(e.EVENT_TYPE)))
        success == Len(SelectSeq(evs, LAMBDA e : HasACCEPTED(e.EVENT_TYPE)))
        threats == check_ip_reputation(ip)
        geo == get_geoip_info(ip)
        ml_score == IF raised THEN 0 ELSE detect_anomalies(ip, evs, b)
        suppressed ==
            ~raised /\ ENABLE_FP_REDUCTION
            /\ success >= FP_SUCCESSFUL_LOGIN_THRESHOLD /\ failed < 10
        risk == calculate_risk_score(failed, 0, geo.COUNTRY \in GEO_RISK_COUNTRIES,
                                     threats # <<>>, FALSE, FALSE, 0, 0, ml_score)
        confidence == calculate_confidence_level(
                          90, threats # <<>>, IF ml_score > 50 THEN 50 ELSE 100, 0)
        alert == [THREAT_LEVEL |-> IF risk >= 80 THEN "CRITICAL" ELSE "HIGH",
                  CATEGORY |-> "AUTHENTICATION",
                  THREAT_TYPE |-> "SSH_BRUTE_FORCE",
                  SOURCE_IP |-> ip,
                  FAILED_ATTEMPTS |-> failed,
                  SUCCESSFUL_LOGINS |-> success,
                  TOTAL_EVENTS |-> Len(evs),
                  RISK_SCORE |-> risk,
                  CONFIDENCE |-> confidence]
    IN  [ip |-> ip, now |-> now, failed |-> failed, success |-> success,
         ml_score |-> ml_score, anomaly |-> ~raised /\ ml_score >= ANOMALY_THRESHOLD,
         suppressed |-> suppressed, raised |-> raised,
         alerts |-> IF ~raised /\ ~suppressed /\ failed >= FAILED_LOGIN_THRESHOLD
                    THEN <<alert>> ELSE <<>>]

\* an account rule that needs more than four IPs
account_rule_above(ip_count) == ip_count > 4

\* the threshold _analyze_user compares the number of distinct IPs with
account_rule_fires(ip_count) == ip_count >= 4

\* _analyze_user
analyze_user(user, evs, now) ==
    LET ips == {evs[i].ip : i \in {j \in 1..Len(evs) : evs[j].ip # NoValue}}
        alert == [ALERT_ID |-> alert_id(user, now),
                  INCIDENT_STATE |-> "OPEN",
                  CATEGORY |-> "LATERAL_MOVEMENT",
                  THREAT_TYPE |-> "POTENTIAL_ACCOUNT_COMPROMISE",
                  USERNAME |-> user,
                  UNIQUE_IPS |-> ips,
                  IP_COUNT |-> Cardinality(ips),
                  THREAT_LEVEL |-> "MEDIUM",
                  RISK_SCORE |-> 60,
                  CONFIDENCE |-> 70]
    IN  IF account_rule_fires(Cardinality(ips)) THEN <<alert>> ELSE <<>>

\* a.get(field)
Get(a, field) == IF field \in DOMAIN a THEN a[field] ELSE NoValue

\* a key of the threat type alone
dedup_key_by_type(a) == <<Get(a, "THREAT_TYPE"), NoValue>>

\* the key _deduplicate files an alert under
dedup_key(a) == <<Get(a, "THREAT_TYPE"), Get(a, "SOURCE_IP")>>

\* the test of _deduplicate: is the alert dropped at time now?
dedup_drops(a, last_seen, now) ==
    /\ dedup_key(a) \in DOMAIN last_seen
    /\ now - last_seen[dedup_key(a)] < timedelta_minutes(ALERT_DEDUP_WINDOW_MINUTES)

\* a seen-map refreshed by every alert, dropped ones too
dedup_seen_refreshed_on_drop(a, last_seen, now) ==
    [k \in DOMAIN last_seen \cup {dedup_key(a)} |->
        IF k = dedup_key(a) THEN now ELSE last_seen[k]]

\* the seen-map of _deduplicate after an alert processed at time now: the
\* entry is written when the alert is kept, after the `continue` of a drop
dedup_seen(a, last_seen, now) ==
    IF dedup_drops(a, last_seen, now) THEN last_seen
    ELSE [k \in DOMAIN last_seen \cup {dedup_key(a)} |->
            IF k = dedup_key(a) THEN now ELSE last_seen[k]]

\* a time pressure that sets in at the warning level already
apply_time_pressure_at_warning(as, te) ==
    IF ~te.injected THEN as
    ELSE IF te.breach_clock >= BREACH_PROBABILITY_WARNING
    THEN [i \in 1..Len(as) |->
            [as[i] EXCEPT !.THREAT_LEVEL = IF @ = "HIGH" THEN "CRITICAL" ELSE @]]
    ELSE as

\* the level _apply_time_pressure leaves an alert with
escalated(level) == IF level = "HIGH" THEN "CRITICAL" ELSE level

\* _apply_time_pressure
apply_time_pressure(as, te) ==
    IF ~te.injected THEN as
    ELSE IF te.breach_clock > BREACH_PROBABILITY_WARNING
    THEN [i \in 1..Len(as) |-> [as[i] EXCEPT !.THREAT_LEVEL = escalated(@)]]
    ELSE as

RECURSIVE apply_cognitive_feedback(_, _)
\* _apply_cognitive_feedback: one call on the mutation engine per alert
apply_cognitive_feedback(as, m) ==
    IF ~m.injected \/ as = <<>> THEN m
    ELSE apply_cognitive_feedback(Tail(as),
            IF Head(as).THREAT_LEVEL = "CRITICAL" THEN observe_success(m)
            ELSE IF Head(as).THREAT_LEVEL = "MEDIUM" THEN observe_regret(m)
            ELSE m)

\* _finalize_stats
finalize_stats(st, as) ==
    [st EXCEPT !.THREATS_DETECTED = Len(as),
               !.CRITICAL_THREATS = Len(SelectSeq(as, LAMBDA a : a.THREAT_LEVEL = "CRITICAL")),
               !.HIGH_THREATS = Len(SelectSeq(as, LAMBDA a : a.THREAT_LEVEL = "HIGH")),
               !.MEDIUM_THREATS = Len(SelectSeq(as, LAMBDA a : a.THREAT_LEVEL = "MEDIUM"))]

RECURSIVE group_by_newest_first(_, _)
\* a grouping that puts each event at the head of its group
group_by_newest_first(evs, field) ==
    IF evs = <<>> THEN <<>>
    ELSE LET m == group_by_newest_first(SubSeq(evs, 1, Len(evs) - 1), field)
             e == evs[Len(evs)]
             key == e[field]
         IN  IF key = NoValue THEN m
             ELSE [k \in DOMAIN m \cup {key} |->
                     IF k # key THEN m[k]
                     ELSE IF key \in DOMAIN m THEN <<e>> \o m[key] ELSE <<e>>]

RECURSIVE group_by(_, _)
\* the first loop of _correlate for one of its two maps: every event that has
\* the field is appended to the list of its key
group_by(evs, field) ==
    IF evs = <<>> THEN <<>>
    ELSE LET m == group_by(SubSeq(evs, 1, Len(evs) - 1), field)
             e == evs[Len(evs)]
             key == e[field]
         IN  IF key = NoValue THEN m
             ELSE [k \in DOMAIN m \cup {key} |->
                     IF k # key THEN m[k]
                     ELSE IF key \in DOMAIN m THEN Append(m[key], e) ELSE <<e>>]

\* the events of one group, in input order
ip_events(evs, ip) == group_by(evs, "ip")[ip]
user_events(evs, user) == group_by(evs, "user")[user]

----------------------------------------------------------------------------
(* The environment: log files, host time zone, parsing pace, wiring.       *)

\* a sshd line "Failed password for <user> from <ip>" inside a syslog envelope
FailedLine(ip, user) ==
    [env |-> TRUE, pats |-> {"SSH_FAILED_PASSWORD"}, ip |-> ip, user |-> user]

\* a sshd line "Accepted password for <user> from <ip>"
AcceptedLine(ip, user) ==
    [env |-> TRUE, pats |-> {"SSH_ACCEPTED_PASSWORD"}, ip |-> ip, user |-> user]

\* a syslog line no detection pattern matches
GenericLine == [env |-> TRUE, pats |-> {}, ip |-> NoValue, user |-> NoValue]

\* a firewall line "BLOCK ... SRC=<ip>": an ip and no user
BlockedLine(ip) ==
    [env |-> TRUE, pats |-> {"FIREWALL_BLOCK"}, ip |-> ip, user |-> NoValue]

\* a line nothing matches
NoiseLine == [env |-> FALSE, pats |-> {}, ip |-> NoValue, user |-> NoValue]

IpList == <<"8.8.8.8", "94.102.61.24", "185.210.45.22", "10.0.0.4", "10.0.0.5">>

\* n failed logins of root from one IP
Burst(ip, n) == [i \in 1..n |-> FailedLine(ip, "root")]

\* n accepted logins of carol from one IP
Logins(ip, n) == [i \in 1..n |-> AcceptedLine(ip, "carol")]

\* one accepted login of the user from each of the first n IPs
Roam(user, n) == [i \in 1..n |-> AcceptedLine(IpList[i], user)]

Blocks ==
    { Burst("94.102.61.24", 5), Burst("185.210.45.22", 6), Burst("8.8.8.8", 4),
      Logins("185.210.45.22", 3),
      Roam("bob", 3), Roam("bob", 4), Roam("alice", 5),
      <<GenericLine, NoiseLine, BlockedLine("10.0.0.4")>> }

\* the most blocks a file is made of
MaxBlocks == 2

RECURSIVE FilesOf(_)
\* the files made of at most n blocks
FilesOf(n) ==
    IF n = 0 THEN {<<>>}
    ELSE {<<>>} \cup {b \o f : b \in Blocks, f \in FilesOf(n - 1)}

Files == FilesOf(MaxBlocks)

\* hosts west of UTC, on UTC, east of UTC
TzOffsets == {-18000, 0, 19800}

\* seconds between the parsing of two lines
LineGaps == {0, 30}

NearMiss == [category |-> "near-miss", severity |-> 6]
FalsePositive == [category |-> "false-positive", severity |-> 2]

\* the memories an injected ExperienceMemory may hold: pain index 0, 0.2, 0.3
\* and 0.6
Memories == { <<>>, <<NearMiss, FalsePositive, FalsePositive>>,
              <<NearMiss, FalsePositive>>, <<NearMiss>> }

\* the breach_clock an injected TimeEngine may hold
BreachClocks == {60, 61}

NoMemory == [injected |-> FALSE, memories |-> <<>>]
NoTimeEngine == [injected |-> FALSE, breach_clock |-> 0]
NoMutation == [injected |-> FALSE, evolution_pressure |-> 0, maturity_level |-> 100,
               mutation_history |-> 0]

\* AnalysisEngine(...): nothing injected, the time engine alone, or all the
\* subsystems as main.initialize_soc_system does (there under breach pressure)
Wirings ==
    { [memory |-> NoMemory, time_engine |-> NoTimeEngine, mutation |-> NoMutation] }
    \cup { [memory |-> NoMemory,
            time_engine |-> [injected |-> TRUE, breach_clock |-> c],
            mutation |-> NoMutation] : c \in BreachClocks }
    \cup { [memory |-> [injected |-> TRUE, memories |-> m],
            time_engine |-> [injected |-> TRUE, breach_clock |-> c],
            mutation |-> [NoMutation EXCEPT !.injected = TRUE]] :
           m \in Memories, c \in BreachClocks \ {BREACH_PROBABILITY_WARNING} }

\* self.stats after __init__
InitialStats ==
    [TOTAL_LINES |-> 0, PARSED_EVENTS |-> 0, THREATS_DETECTED |-> 0,
     CRITICAL_THREATS |-> 0, HIGH_THREATS |-> 0, MEDIUM_THREATS |-> 0,
     ML_ANOMALIES_DETECTED |-> 0, FALSE_POSITIVES_SUPPRESSED |-> 0]

NoScorer == [fn |-> "none", args |-> <<>>, out |-> -1]

\* no lookup under way
NoIntel ==
    [enabled |-> ENABLE_LIVE_THREAT_INTEL, ip |-> NoValue, abuse_resp |-> NoResponse,
     vt_resp |-> NoResponse, cache |-> <<>>, calls |-> 0, out |-> <<>>]

----------------------------------------------------------------------------
(* The engine as a state machine *)

\* the state after AnalysisEngine.__init__
Init ==
    /\ tz \in TzOffsets
    /\ clock = 0
    /\ \E w \in Wirings :
         /\ memory = w.memory
         /\ time_engine = w.time_engine
         /\ mutation = w.mutation
    /\ pc = "idle"
    /\ file = <<>>
    /\ events = <<>>
    /\ baselines = NoBaselines
    /\ ip_map = <<>>
    /\ user_map = <<>>
    /\ idx = 1
    /\ alerts = <<>>
    /\ returned = <<>>
    /\ seen = <<>>
    /\ unique = <<>>
    /\ processed = <<>>
    /\ before = <<>>
    /\ stats = InitialStats
    /\ incidents = <<>>
    /\ scorer = NoScorer
    /\ intel = NoIntel
    /\ calls = <<>>

\* where analyze_file goes on once the loop over the IPs is over
AfterIps(um, as) ==
    IF um # <<>> THEN "analyze_user"
    ELSE IF ENABLE_ALERT_DEDUPLICATION /\ as # <<>> THEN "dedup"
    ELSE "finish"

\* where analyze_file goes on once the loop over the users is over
AfterUsers(as) ==
    IF ENABLE_ALERT_DEDUPLICATION /\ as # <<>> THEN "dedup" ELSE "finish"

\* analyze_file on a path that is no file: [] is returned, nothing else happens
AnalyzeMissingFile ==
    /\ pc = "idle"
    /\ pc' = "not_found"
    /\ alerts' = <<>>
    /\ UNCHANGED <<tz, clock, memory, time_engine, mutation, file, events, baselines,
                   ip_map, user_map, idx, returned, seen, unique, processed, before,
                   stats, incidents, scorer, intel, calls>>

\* analyze_file up to the loops of _correlate: _parse_file, build_baseline and
\* the grouping of the events by ip and by user; the engine is at `at`
AnalyzeFileAt(at, f, gap) ==
    LET evs == parse_file(f, 1, clock, gap, tz)
        with_ip == SelectSeq(evs, LAMBDA e : e.ip # NoValue)
        with_user == SelectSeq(evs, LAMBDA e : e.user # NoValue)
        ipm == Distinct([i \in 1..Len(with_ip) |-> with_ip[i].ip])
        um == Distinct([i \in 1..Len(with_user) |-> with_user[i].user])
    IN  /\ pc = at
        /\ file' = f
        /\ events' = evs
        /\ clock' = clock + Len(f) * gap
        /\ stats' = [stats EXCEPT !.TOTAL_LINES = Len(f),
                                  !.PARSED_EVENTS = @ + Len(evs)]
        /\ baselines' = IF ENABLE_ML_ANOMALY_DETECTION THEN build_baseline(evs)
                        ELSE baselines
        /\ ip_map' = ipm
        /\ user_map' = um
        /\ idx' = 1
        /\ alerts' = <<>>
        /\ returned' = <<>>
        /\ seen' = <<>>
        /\ unique' = <<>>
        /\ processed' = <<>>
        /\ calls' = <<>>
        /\ pc' = IF ipm # <<>> THEN "analyze_ip" ELSE AfterIps(um, <<>>)
        /\ UNCHANGED <<tz, memory, time_engine, mutation, before, incidents, scorer, intel>>

\* the first analyze_file of an engine
AnalyzeFile(f, gap) == AnalyzeFileAt("idle", f, gap)

\* one iteration of the first loop of _correlate: _analyze_ip on the next IP
AnalyzeIp ==
    LET ip == ip_map[idx]
        evs == ip_events(events, ip)
        r == analyze_ip(ip, evs, clock, baselines, memory, time_engine)
        as == alerts \o r.alerts
    IN  /\ pc = "analyze_ip"
        /\ returned' = Append(returned, r)
        /\ calls' = Append(calls, [rule |-> "_analyze_ip", key |-> ip,
                                   events |-> evs])
        /\ alerts' = as
        /\ stats' = [stats EXCEPT
                        !.ML_ANOMALIES_DETECTED = IF r.anomaly THEN @ + 1 ELSE @,
                        !.FALSE_POSITIVES_SUPPRESSED = IF r.suppressed THEN @ + 1 ELSE @]
        /\ incidents' = IF r.alerts # <<>>
                        THEN upsert_incident(incidents, r.alerts[1], clock)
                        ELSE incidents
        /\ idx' = IF idx < Len(ip_map) THEN idx + 1 ELSE 1
        /\ pc' = IF r.raised THEN "raised"
                 ELSE IF idx < Len(ip_map) THEN "analyze_ip"
                 ELSE AfterIps(user_map, as)
        /\ UNCHANGED <<tz, clock, memory, time_engine, mutation, file, events,
                       baselines, ip_map, user_map, seen, unique, processed, before,
                       scorer, intel>>

\* one iteration of the second loop of _correlate: _analyze_user on the next user
AnalyzeUser ==
    LET user == user_map[idx]
        evs == user_events(events, user)
        r == analyze_user(user, evs, clock)
        as == alerts \o r
    IN  /\ pc = "analyze_user"
        /\ calls' = Append(calls, [rule |-> "_analyze_user", key |-> user,
                                   events |-> evs])
        /\ alerts' = as
        /\ incidents' = IF r # <<>> THEN upsert_incident(incidents, r[1], clock)
                        ELSE incidents
        /\ idx' = IF idx < Len(user_map) THEN idx + 1 ELSE 1
        /\ pc' = IF idx < Len(user_map) THEN "analyze_user" ELSE AfterUsers(as)
        /\ UNCHANGED <<tz, clock, memory, time_engine, mutation, file, events,
                       baselines, ip_map, user_map, returned, seen, unique, processed,
                       before, stats, scorer, intel>>

\* one iteration of the loop of _deduplicate
Deduplicate ==
    LET a == alerts[idx]
        drop == dedup_drops(a, seen, clock)
        key == dedup_key(a)
    IN  /\ pc = "dedup"
        /\ seen' = dedup_seen(a, seen, clock)
        /\ unique' = IF drop THEN unique ELSE Append(unique, a)
        /\ processed' = Append(processed, [at |-> clock, kept |-> ~drop])
        /\ idx' = IF idx < Len(alerts) THEN idx + 1 ELSE 1
        /\ pc' = IF idx < Len(alerts) THEN "dedup" ELSE "finish"
        /\ UNCHANGED <<tz, clock, memory, time_engine, mutation, file, events,
                       baselines, ip_map, user_map, alerts, returned, before, stats,
                       incidents, scorer, intel, calls>>

\* the rest of analyze_file: _apply_time_pressure, _apply_cognitive_feedback,
\* _finalize_stats, return alerts
Finish ==
    LET in == IF ENABLE_ALERT_DEDUPLICATION THEN unique ELSE alerts
        out == apply_time_pressure(in, time_engine)
    IN  /\ pc = "finish"
        /\ before' = in
        /\ alerts' = out
        /\ mutation' = apply_cognitive_feedback(out, mutation)
        /\ stats' = finalize_stats(stats, out)
        /\ pc' = "done"
        /\ UNCHANGED <<tz, clock, memory, time_engine, file, events, baselines,
                       ip_map, user_map, idx, returned, seen, unique, processed,
                       incidents, scorer, intel, calls>>

Next ==
    \/ AnalyzeMissingFile
    \/ \E f \in Files, gap \in LineGaps : AnalyzeFile(f, gap)
    \/ AnalyzeIp
    \/ AnalyzeUser
    \/ Deduplicate
    \/ Finish

Spec == Init /\ [][Next]_vars

----------------------------------------------------------------------------
(* _deduplicate on its own: any list of alerts the two rules produce, with *)
(* time passing between the iterations of its loop.                        *)

\* the alert _analyze_ip builds for n failed logins from ip
BruteForceAlert(ip, n) ==
    analyze_ip(ip, parse_file(Burst(ip, n), 1, 0, 0, 0), 0, NoBaselines, NoMemory,
               NoTimeEngine).alerts[1]

\* the alert _analyze_user builds for a user seen from n IPs
AccountAlert(user, n) ==
    analyze_user(user, parse_file(Roam(user, n), 1, 0, 0, 0), 0)[1]

\* a HIGH and a CRITICAL alert for one IP, a MEDIUM one for another IP, and the
\* alerts of two users
AlertAlphabet ==
    { BruteForceAlert("94.102.61.24", 5), BruteForceAlert("94.102.61.24", 9),
      BruteForceAlert("8.8.8.8", 5), AccountAlert("bob", 4), AccountAlert("alice", 4) }

\* the longest list handed to _deduplicate
MaxAlerts == 3

AlertLists == UNION {[1..n -> AlertAlphabet] : n \in 1..MaxAlerts}

\* seconds that may pass between two iterations
DedupDelays == {timedelta_minutes(ALERT_DEDUP_WINDOW_MINUTES) \div 2,
                timedelta_minutes(ALERT_DEDUP_WINDOW_MINUTES)}

InitDedup ==
    /\ tz = 0
    /\ clock = 0
    /\ memory = NoMemory
    /\ time_engine = NoTimeEngine
    /\ mutation = NoMutation
    /\ pc = "dedup"
    /\ file = <<>>
    /\ events = <<>>
    /\ baselines = NoBaselines
    /\ ip_map = <<>>
    /\ user_map = <<>>
    /\ idx = 1
    /\ alerts \in AlertLists
    /\ returned = <<>>
    /\ seen = <<>>
    /\ unique = <<>>
    /\ processed = <<>>
    /\ before = <<>>
    /\ stats = InitialStats
    /\ incidents = <<>>
    /\ scorer = NoScorer
    /\ intel = NoIntel
    /\ calls = <<>>

\* time passes before the next datetime.utcnow() of the loop
Elapse(d) ==
    /\ pc = "dedup"
    /\ clock + d <= 2 * timedelta_minutes(ALERT_DEDUP_WINDOW_MINUTES)
    /\ clock' = clock + d
    /\ UNCHANGED <<tz, memory, time_engine, mutation, pc, file, events, baselines,
                   ip_map, user_map, idx, alerts, returned, seen, unique, processed,
                   before, stats, incidents, scorer, intel, calls>>

NextDedup ==
    \/ Deduplicate
    \/ \E d \in DedupDelays : Elapse(d)

SpecDedup == InitDedup /\ [][NextDedup]_vars

----------------------------------------------------------------------------
(* The two scorers on their own, on arguments drawn from grids.            *)

\* the largest count handed to a scorer
MaxCount == 20

RiskArgs ==
    {0, 5, MaxCount} \X {0, MaxCount} \X BOOLEAN \X BOOLEAN \X BOOLEAN \X BOOLEAN
    \X {0, 3, MaxCount} \X {0, MaxCount + 1} \X {0, 50, 100}

ConfidenceArgs == {0, 45, 100} \X BOOLEAN \X {0, 55, 100} \X {0, 3, MaxCount}

InitScore ==
    /\ tz = 0
    /\ clock = 0
    /\ memory = NoMemory
    /\ time_engine = NoTimeEngine
    /\ mutation = NoMutation
    /\ pc = "scoring"
    /\ file = <<>>
    /\ events = <<>>
    /\ baselines = NoBaselines
    /\ ip_map = <<>>
    /\ user_map = <<>>
    /\ idx = 1
    /\ alerts = <<>>
    /\ returned = <<>>
    /\ seen = <<>>
    /\ unique = <<>>
    /\ processed = <<>>
    /\ before = <<>>
    /\ stats = InitialStats
    /\ incidents = <<>>
    /\ \/ \E a \in RiskArgs : scorer = [fn |-> "risk", args |-> a, out |-> -1]
       \/ \E a \in ConfidenceArgs :
            scorer = [fn |-> "confidence", args |-> a, out |-> -1]
    /\ intel = NoIntel
    /\ calls = <<>>

\* a call of calculate_risk_score
CalculateRisk ==
    LET a == scorer.args
    IN  /\ pc = "scoring"
        /\ scorer.fn = "risk"
        /\ scorer' = [scorer EXCEPT !.out =
                calculate_risk_score(a[1], a[2], a[3], a[4], a[5], a[6], a[7], a[8], a[9])]
        /\ pc' = "scored"
        /\ UNCHANGED <<tz, clock, memory, time_engine, mutation, file, events,
                       baselines, ip_map, user_map, idx, alerts, returned, seen,
                       unique, processed, before, stats, incidents, intel, calls>>

\* a call of calculate_confidence_level
CalculateConfidence ==
    LET a == scorer.args
    IN  /\ pc = "scoring"
        /\ scorer.fn = "confidence"
        /\ scorer' = [scorer EXCEPT !.out =
                calculate_confidence_level(a[1], a[2], a[3], a[4])]
        /\ pc' = "scored"
        /\ UNCHANGED <<tz, clock, memory, time_engine, mutation, file, events,
                       baselines, ip_map, user_map, idx, alerts, returned, seen,
                       unique, processed, before, stats, incidents, intel, calls>>

\* the scorers called directly, and called by the engine
NextScore ==
    \/ CalculateRisk
    \/ CalculateConfidence
    \/ Next

SpecScore == (Init \/ InitScore) /\ [][NextScore]_vars

----------------------------------------------------------------------------
(* Properties of _deduplicate *)

\* the entity an alert is about: the source IP of an IP alert, the username
\* of a user alert
Entity(a) == IF "SOURCE_IP" \in DOMAIN a THEN a.SOURCE_IP ELSE a.USERNAME

\* the pair (threat_type, entity) of an alert
AlertKey(a) == <<a.THREAT_TYPE, Entity(a)>>

\* the loop of _deduplicate has gone through the whole of a non-empty input
DedupOver == pc = "finish" /\ alerts # <<>> /\ Len(processed) = Len(alerts)

\* the positions of the input whose alert has the same (threat_type, entity)
\* as the one at position i
SameKey(i) == {j \in 1..Len(alerts) : AlertKey(alerts[j]) = AlertKey(alerts[i])}

\* the first position of a set of positions
First(S) == CHOOSE i \in S : \A j \in S : i <= j

\* C1: when two or more alerts of the input of _deduplicate have the same
\* (THREAT_TYPE, entity) and all of them are processed within
\* ALERT_DEDUP_WINDOW_MINUTES of the first, exactly one of them is in the
\* output, and it is the first in input order.
C1_DedupFirstWins ==
    DedupOver =>
        \A i \in 1..Len(alerts) :
            LET group == SameKey(i)
                first == First(group)
            IN  ( /\ Cardinality(group) >= 2
                  /\ \A j \in group :
                        processed[j].at - processed[first].at
                            < timedelta_minutes(ALERT_DEDUP_WINDOW_MINUTES) )
                => \A j \in group : processed[j].kept <=> j = first

\* C2: _deduplicate never drops an alert whose (threat_type, entity) differs
\* from that of every alert earlier in the input; the alerts of two users of
\* one run both survive.
C2_DedupKeyIsTypeAndEntity ==
    DedupOver =>
        \A j \in 1..Len(alerts) :
            (\A i \in 1..(j - 1) : AlertKey(alerts[i]) # AlertKey(alerts[j]))
                => processed[j].kept

----------------------------------------------------------------------------
(* Properties of _analyze_ip *)

\* the instant (UTC) an event was ingested at, from its local INGEST_TIME
IngestInstant(e) == e.INGEST_TIME - tz

\* the events of an IP that are failed logins ingested inside the last
\* FAILED_LOGIN_WINDOW_MINUTES before the instant now
FailedInWindow(ip, now) ==
    Len(SelectSeq(ip_events(events, ip), LAMBDA e :
        /\ e.EVENT_TYPE = "SSH_FAILED_PASSWORD"
        /\ IngestInstant(e) > now - timedelta_minutes(FAILED_LOGIN_WINDOW_MINUTES)))

\* the accepted logins of an IP over all its events
AcceptedOf(ip) ==
    Len(SelectSeq(ip_events(events, ip), LAMBDA e : e.EVENT_TYPE = "SSH_ACCEPTED_PASSWORD"))

\* C3: for every IP group, with failed the number of the IP's failed logins
\* inside the last FAILED_LOGIN_WINDOW_MINUTES and success the number of its
\* accepted logins, _analyze_ip returns exactly one alert when
\* failed >= FAILED_LOGIN_THRESHOLD and none when failed is below it; the
\* alert is an AUTHENTICATION / SSH_BRUTE_FORCE one that carries failed and
\* success.
C3_BruteForceRule ==
    \A i \in 1..Len(returned) :
        LET r == returned[i]
            failed == FailedInWindow(r.ip, r.now)
            success == AcceptedOf(r.ip)
        IN  IF failed >= FAILED_LOGIN_THRESHOLD
            THEN /\ Len(r.alerts) = 1
                 /\ r.alerts[1].THREAT_TYPE = "SSH_BRUTE_FORCE"
                 /\ r.alerts[1].CATEGORY = "AUTHENTICATION"
                 /\ r.alerts[1].SOURCE_IP = r.ip
                 /\ r.alerts[1].FAILED_ATTEMPTS = failed
                 /\ r.alerts[1].SUCCESSFUL_LOGINS = success
            ELSE r.alerts = <<>>

\* the step is a call of _analyze_ip
IsAnalyzeIp == pc = "analyze_ip" /\ Len(returned') = Len(returned) + 1

\* what that call returned
Returned == returned'[Len(returned')]

MeetsSuppression(r) ==
    r.success >= FP_SUCCESSFUL_LOGIN_THRESHOLD /\ r.failed < FAILED_LOGIN_THRESHOLD

C6_PainBiasOverride ==
    \A i \in 1..Len(returned) :
        (memory.injected /\ returned[i].pain_bias > 30 /\ MeetsSuppression(returned[i]))
        => /\ ~returned[i].suppressed
           /\ returned[i].alerts # <<>>

----------------------------------------------------------------------------
(* Properties of analyze_file *)

\* the time engine is injected and its breach_clock is above the warning level
BreachPressure ==
    time_engine.injected /\ time_engine.breach_clock > BREACH_PROBABILITY_WARNING

\* C7: under breach pressure no alert that analyze_file returns is HIGH: every
\* alert that was HIGH is CRITICAL, and one that was MEDIUM or CRITICAL keeps
\* its level; without a time engine, or with breach_clock at or below
\* BREACH_PROBABILITY_WARNING, no THREAT_LEVEL is changed.
C7_BreachPressureEscalation ==
    pc = "done" =>
        /\ Len(alerts) = Len(before)
        /\ \A i \in 1..Len(alerts) :
            LET was == before[i].THREAT_LEVEL
                is == alerts[i].THREAT_LEVEL
            IN  /\ alerts[i] = [before[i] EXCEPT !.THREAT_LEVEL = is]
                /\ IF BreachPressure
                   THEN /\ is # "HIGH"
                        /\ was = "HIGH" => is = "CRITICAL"
                        /\ was \in {"MEDIUM", "CRITICAL"} => is = was
                   ELSE is = was

\* under breach pressure a HIGH alert was returned as CRITICAL next to a MEDIUM
\* one that kept its level
C7_Witness ==
    /\ pc = "done"
    /\ BreachPressure
    /\ \E i, j \in 1..Len(alerts) :
        /\ before[i].THREAT_LEVEL = "HIGH"
        /\ alerts[i].THREAT_LEVEL = "CRITICAL"
        /\ before[j].THREAT_LEVEL = "MEDIUM"
        /\ alerts[j].THREAT_LEVEL = "MEDIUM"

\* the distinct source IPs a user of the log appears with
DistinctIps(user) ==
    {e.ip : e \in {x \in Range(user_events(events, user)) : x.ip # NoValue}}

\* the number of distinct IPs the account rule fires from (the default)
AccountIpDefault == 4

\* the users of the log seen from at least n distinct IPs
UsersAtOrAbove(n) ==
    {u \in Range(user_map) : Cardinality(DistinctIps(u)) >= n}

\* the event types of a failed authentication
FailedAuthTypes ==
    {"SSH_FAILED_PASSWORD", "SSH_INVALID_USER", "AUTH_FAILURE", "WEB_LOGIN_FAILURE"}

\* the log has one user at or above the default of the account rule, and no
\* failed-authentication line
AccountScenario ==
    /\ Cardinality(UsersAtOrAbove(AccountIpDefault)) = 1
    /\ \A k \in 1..Len(events) : events[k].EVENT_TYPE \notin FailedAuthTypes

C9_AccountIpThresholdConfigured ==
    (pc \in {"dedup", "finish"} /\ user_map # <<>>) =>
        \A u \in Range(user_map) :
            (\E i \in 1..Len(alerts) :
                /\ alerts[i].THREAT_TYPE = "POTENTIAL_ACCOUNT_COMPROMISE"
                /\ alerts[i].USERNAME = u)
            <=> Cardinality(DistinctIps(u)) >= ACCOUNT_IP_THRESHOLD

\* the scores of the alerts of a list are in their ranges
ScoresInRange(as) ==
    \A i \in 1..Len(as) :
        /\ as[i].RISK_SCORE \in 0..100
        /\ as[i].CONFIDENCE \in 10..100

\* C10: on valid arguments calculate_risk_score returns an integer in [0,100]
\* and calculate_confidence_level one in [10,100]; every alert of analyze_file
\* has RISK_SCORE in [0,100], also after the breach-clock +10, and CONFIDENCE
\* in [10,100].
C10_ScoreBounds ==
    /\ (pc = "scored" /\ scorer.fn = "risk") => scorer.out \in 0..100
    /\ (pc = "scored" /\ scorer.fn = "confidence") => scorer.out \in 10..100
    /\ ScoresInRange(alerts)
    /\ ScoresInRange(unique)
    /\ ScoresInRange(before)

\* calculate_risk_score returned 100 for a sum of weights above 100
C10_Witness ==
    /\ pc = "scored"
    /\ scorer.fn = "risk"
    /\ scorer.args[1] = MaxCount
    /\ scorer.args[1] * WEIGHT_FAILED_AUTH > MAX_RISK_SCORE
    /\ scorer.out = MAX_RISK_SCORE

----------------------------------------------------------------------------
(* Properties of the scores, the incident store and the error paths *)

\* what calculate_risk_score returns for the inputs of an analysed IP
ScorerRisk(r) ==
    calculate_risk_score(r.failed, 0,
                         get_geoip_info(r.ip).COUNTRY \in GEO_RISK_COUNTRIES,
                         check_ip_reputation(r.ip) # <<>>, FALSE, FALSE, 0, 0,
                         r.ml_score)

\* C11: the RISK_SCORE of every SSH_BRUTE_FORCE alert is the value
\* calculate_risk_score returns for the alert's own inputs, whatever the state
\* of the injected subsystems.
C11_ScorerOnlyRisk ==
    \A i \in 1..Len(returned) :
        returned[i].alerts # <<>>
            => returned[i].alerts[1].RISK_SCORE = ScorerRisk(returned[i])

\* the rows of the incidents table written for an alert; the table starts
\* empty and every alert of a run has its own ALERT_ID, so a row is a call of
\* upsert_incident
RowsOf(a) == {k \in 1..Len(incidents) : incidents[k].alert_id = a.ALERT_ID}

\* C12: during one analyze_file run upsert_incident is called exactly once for
\* each alert of the returned list, and never for an entity that was
\* suppressed nor for an alert that deduplication removed.
C12_StorageSink ==
    pc = "done" =>
        /\ \A i \in 1..Len(alerts) : Cardinality(RowsOf(alerts[i])) = 1
        /\ \A k \in 1..Len(incidents) :
            \E i \in 1..Len(alerts) : alerts[i].ALERT_ID = incidents[k].alert_id

----------------------------------------------------------------------------
(* _analyze_ip on its own: the events of one IP, of which one may carry an *)
(* INGEST_TIME that does not parse, with and without a baseline.           *)

\* the most events of a group
MaxGroup == 5

\* evs with the INGEST_TIME of event k spoilt (k = 0: none)
Spoilt(evs, k) ==
    [i \in 1..Len(evs) |->
        IF i = k THEN [evs[i] EXCEPT !.INGEST_TIME = NotIsoformat] ELSE evs[i]]

\* groups of one IP: failed logins followed by accepted ones, parsed on a host
\* on UTC
IpGroups ==
    { Spoilt(parse_file(Burst("94.102.61.24", n) \o Logins("94.102.61.24", m),
                        1, 0, gap, 0), k) :
        n \in 1..MaxGroup, m \in {0, FP_SUCCESSFUL_LOGIN_THRESHOLD},
        gap \in LineGaps, k \in 0..MaxGroup }

\* the latest INGEST_TIME of a group that parses
LastStamp(evs) ==
    LET ts == {evs[i].INGEST_TIME : i \in 1..Len(evs)} \ {NotIsoformat}
    IN  IF ts = {} THEN 0 ELSE CHOOSE t \in ts : \A u \in ts : u <= t

InitIp ==
    /\ tz = 0
    /\ \E w \in Wirings :
         /\ memory = w.memory
         /\ time_engine = w.time_engine
         /\ mutation = w.mutation
    /\ pc = "ip_call"
    /\ file = <<>>
    /\ events \in IpGroups
    /\ \E d \in LineGaps : clock = LastStamp(events) + d
    /\ baselines \in {NoBaselines, build_baseline(events)}
    /\ ip_map = <<events[1].ip>>
    /\ user_map = <<>>
    /\ idx = 1
    /\ alerts = <<>>
    /\ returned = <<>>
    /\ seen = <<>>
    /\ unique = <<>>
    /\ processed = <<>>
    /\ before = <<>>
    /\ stats = InitialStats
    /\ incidents = <<>>
    /\ scorer = NoScorer
    /\ intel = NoIntel
    /\ calls = <<>>

\* a call of _analyze_ip on the group
AnalyzeIpCall ==
    LET r == analyze_ip(ip_map[1], events, clock, baselines, memory, time_engine)
    IN  /\ pc = "ip_call"
        /\ returned' = <<r>>
        /\ alerts' = r.alerts
        /\ stats' = [stats EXCEPT
                        !.ML_ANOMALIES_DETECTED = IF r.anomaly THEN @ + 1 ELSE @,
                        !.FALSE_POSITIVES_SUPPRESSED = IF r.suppressed THEN @ + 1 ELSE @]
        /\ incidents' = IF r.alerts # <<>>
                        THEN upsert_incident(incidents, r.alerts[1], clock)
                        ELSE incidents
        /\ pc' = IF r.raised THEN "raised" ELSE "returned"
        /\ UNCHANGED <<tz, clock, memory, time_engine, mutation, file, events,
                       baselines, ip_map, user_map, idx, seen, unique, processed,
                       before, scorer, intel, calls>>

\* a call of the legacy engine's _analyze_ip on the group
LegacyAnalyzeIpCall ==
    LET r == legacy_analyze_ip(ip_map[1], events, clock, baselines)
    IN  /\ pc = "ip_call"
        /\ returned' = <<r>>
        /\ alerts' = r.alerts
        /\ stats' = [stats EXCEPT
                        !.ML_ANOMALIES_DETECTED = IF r.anomaly THEN @ + 1 ELSE @,
                        !.FALSE_POSITIVES_SUPPRESSED = IF r.suppressed THEN @ + 1 ELSE @]
        /\ pc' = IF r.raised THEN "legacy_raised" ELSE "legacy_returned"
        /\ UNCHANGED <<tz, clock, memory, time_engine, mutation, file, events,
                       baselines, ip_map, user_map, idx, seen, unique, processed,
                       before, incidents, scorer, intel, calls>>

NextIp == AnalyzeIpCall \/ LegacyAnalyzeIpCall

SpecIp == InitIp /\ [][NextIp]_vars

\* the events of a group whose INGEST_TIME parses
WellStamped(evs) == SelectSeq(evs, LAMBDA e : e.INGEST_TIME # NotIsoformat)

\* C13: if one event of an IP group carries an INGEST_TIME that cannot be
\* parsed, _analyze_ip completes without raising, only that event is left out
\* of the windowed subset and the other events are counted as usual, for every
\* group size and with anomaly detection enabled.
C13_MalformedTimestamp ==
    pc \in {"returned", "raised"} =>
        /\ pc = "returned"
        /\ returned[1].failed
            = Len(SelectSeq(WellStamped(events), LAMBDA e :
                /\ e.EVENT_TYPE = "SSH_FAILED_PASSWORD"
                /\ e.INGEST_TIME > clock - timedelta_minutes(FAILED_LOGIN_WINDOW_MINUTES)))
        /\ returned[1].success = AcceptedOf(ip_map[1])

-----------------------------------------------------------------------------
(* The reputation lookups alone: one IP is looked up again and again, with   *)
(* the answers the two providers can give and a day passing or not between   *)
(* the lookups.                                                              *)

\* the answers of a provider whose score is one of scores
Responses(scores) ==
    {[NoResponse EXCEPT !.kind = k] : k \in {"timeout", "exception"}}
    \cup {[NoResponse EXCEPT !.kind = "response", !.status = 500]}
    \cup {[kind |-> "response", status |-> 429, json |-> TRUE, path |-> TRUE,
           field |-> TRUE, score |-> n] : n \in scores}
    \cup {[kind |-> "response", status |-> 200, json |-> b[1], path |-> b[2],
           field |-> b[3], score |-> 0] :
            b \in {<<FALSE, FALSE, FALSE>>, <<TRUE, FALSE, FALSE>>,
                   <<TRUE, TRUE, FALSE>>}}
    \cup {[kind |-> "response", status |-> 200, json |-> TRUE, path |-> TRUE,
           field |-> TRUE, score |-> n] : n \in scores}

\* abuseConfidenceScore on either side of the 70 of check_ip_reputation
AbuseResponses == Responses({69, 70})

\* malicious engines on either side of the 3 of check_ip_reputation
VtResponses == Responses({2, 3})

\* the IPs looked up: on the static denylist, a Tor exit node, on neither
LookupIps == {"185.210.45.22", "185.220.101.4", "10.0.0.5"}

\* the local times at which lookups are made
LookupTimes == {0, cache_expiry - 1, cache_expiry}

InitIntel ==
    /\ tz = 0
    /\ clock = 0
    /\ memory = NoMemory
    /\ time_engine = NoTimeEngine
    /\ mutation = NoMutation
    /\ pc = "intel"
    /\ file = <<>>
    /\ events = <<>>
    /\ baselines = NoBaselines
    /\ ip_map = <<>>
    /\ user_map = <<>>
    /\ idx = 0
    /\ alerts = <<>>
    /\ returned = <<>>
    /\ seen = <<>>
    /\ unique = <<>>
    /\ processed = <<>>
    /\ before = <<>>
    /\ stats = InitialStats
    /\ incidents = <<>>
    /\ scorer = NoScorer
    /\ \E en \in BOOLEAN, ip \in LookupIps :
          intel = [NoIntel EXCEPT !.enabled = en, !.ip = ip]
    /\ calls = <<>>

\* one call of ThreatIntelligence.check_ip_reputation at the local time now;
\* a provider answers only if the call reaches its requests.get
CheckIpReputation(now) ==
    /\ pc = "intel"
    /\ now >= clock
    /\ \E ar \in IF ip_reputation(intel.enabled, intel.cache, now, intel.ip,
                                  NoResponse, NoResponse).abuse_called
                 THEN AbuseResponses ELSE {NoResponse},
          vr \in IF ip_reputation(intel.enabled, intel.cache, now, intel.ip,
                                  NoResponse, NoResponse).vt_called
                 THEN VtResponses ELSE {NoResponse} :
          LET r == ip_reputation(intel.enabled, intel.cache, now, intel.ip, ar, vr)
          IN  intel' = [intel EXCEPT
                           !.abuse_resp = IF r.abuse_called THEN ar ELSE NoResponse,
                           !.vt_resp = IF r.vt_called THEN vr ELSE NoResponse,
                           !.cache = r.cache,
                           !.calls = Min(intel.calls + 1, 2),
                           !.out = <<r>>]
    /\ clock' = now
    /\ UNCHANGED <<tz, memory, time_engine, mutation, pc, file, events,
                   baselines, ip_map, user_map, idx, alerts, returned, seen,
                   unique, processed, before, stats, incidents, scorer, calls>>

NextIntel == \E now \in LookupTimes : CheckIpReputation(now)

SpecIntel == InitIntel /\ [][NextIntel]_vars

\* the provider was asked and the call timed out, raised or was refused
CallFailed(resp) ==
    resp.kind \in {"timeout", "exception"}
    \/ (resp.kind = "response" /\ resp.status # 200)

\* the provider answered 200 with a body that is not a JSON object
NotJson(resp) == resp.kind = "response" /\ resp.status = 200 /\ ~resp.json

\* the provider answered 200 with a JSON object that lacks the expected fields
MissingFields(resp) ==
    resp.kind = "response" /\ resp.status = 200 /\ resp.json
    /\ (~resp.path \/ ~resp.field)

\* every outcome of a call that is not a usable answer
Failing(resp) == CallFailed(resp) \/ NotJson(resp) \/ MissingFields(resp)

\* the matches of the static denylist and the Tor-exit set for an IP
StaticMatches(ip) ==
    SelectSeq(<<"KNOWN_MALICIOUS_IP", "TOR_EXIT_NODE">>,
              LAMBDA t : \/ (t = "KNOWN_MALICIOUS_IP" /\ ip \in malicious_ips)
                         \/ (t = "TOR_EXIT_NODE" /\ ip \in tor_exit_nodes))

\* a lookup has returned with the live lookups on
LiveLookupDone == intel.enabled /\ intel.out # <<>>

\* the failing provider left no indicator and the static matches are reported
NoMatchFrom(provider, resp) ==
    Failing(resp) =>
        /\ provider \notin Range(intel.out[1].threats)
        /\ SelectSeq(intel.out[1].threats,
                     LAMBDA t : t \in {"KNOWN_MALICIOUS_IP", "TOR_EXIT_NODE"})
             = StaticMatches(intel.ip)

\* C14 as stated: after every failing outcome of a provider call, a body
\* missing the expected fields included, check_abuseipdb and check_virustotal
\* have returned None, check_ip_reputation has returned, the failing provider
\* has added no indicator and the static matches are reported.
C14_LiveIntelFailSoft ==
    LiveLookupDone =>
        /\ Failing(intel.abuse_resp) => intel.out[1].abuse = <<>>
        /\ Failing(intel.vt_resp) => intel.out[1].vt = <<>>
        /\ NoMatchFrom("LIVE_ABUSEIPDB_MATCH", intel.abuse_resp)
        /\ NoMatchFrom("LIVE_VIRUSTOTAL_MATCH", intel.vt_resp)

\* C14 amended: a call that times out, raises, is answered with a status other
\* than 200 or with a body that is not JSON makes the provider function return
\* None, and so does a VirusTotal body without last_analysis_stats; a 200 JSON
\* body that only lacks the score (for AbuseIPDB, also one without "data")
\* makes it return a result whose score is 0. In every one of these cases
\* check_ip_reputation returns, the provider adds no indicator and the static
\* matches are reported.
C14_LiveIntelFailSoftAmended ==
    LiveLookupDone =>
        /\ (CallFailed(intel.abuse_resp) \/ NotJson(intel.abuse_resp))
              => intel.out[1].abuse = <<>>
        /\ MissingFields(intel.abuse_resp)
              => intel.out[1].abuse = <<[CONFIDENCE_SCORE |-> 0]>>
        /\ (CallFailed(intel.vt_resp) \/ NotJson(intel.vt_resp)
            \/ (MissingFields(intel.vt_resp) /\ ~intel.vt_resp.path))
              => intel.out[1].vt = <<>>
        /\ (MissingFields(intel.vt_resp) /\ intel.vt_resp.path)
              => intel.out[1].vt = <<[MALICIOUS |-> 0]>>
        /\ NoMatchFrom("LIVE_ABUSEIPDB_MATCH", intel.abuse_resp)
        /\ NoMatchFrom("LIVE_VIRUSTOTAL_MATCH", intel.vt_resp)

\* AbuseIPDB answered 200 without "data" for an IP on the static denylist, and
\* VirusTotal timed out: the lookup returned the static match alone
C14_Witness ==
    /\ LiveLookupDone
    /\ MissingFields(intel.abuse_resp) /\ ~intel.abuse_resp.path
    /\ intel.vt_resp.kind = "timeout"
    /\ intel.out[1].threats = <<"KNOWN_MALICIOUS_IP">>

-----------------------------------------------------------------------------
(* What the caller of analyze_file gets.                                     *)

\* what the caller of analyze_file holds once it is over: the exception or
\* the list returned
analyze_file_outcome == [raised |-> pc = "raised", value |-> alerts]

\* main.run_classic_analysis on what analyze_file returned: the status shown
run_classic_analysis(value) ==
    IF value = <<>> THEN "NO ALERTS GENERATED" ELSE "SOC ANALYSIS COMPLETE"

\* the outcome of a run that parsed no event or produced no alert
EmptyResult == [raised |-> FALSE, value |-> <<>>]

\* a run on a file that is there, with no event parsed, returned the empty
\* result
EmptyRunReturned ==
    pc = "done" /\ events = <<>> /\ analyze_file_outcome = EmptyResult

\* C15: analyze_file on a path that is no file surfaces a failure: what the
\* caller gets differs from the empty result of a successful run, and
\* run_classic_analysis does not report it as a run without alerts; nothing
\* partial is produced.
C15_MissingInputDistinct ==
    pc = "not_found" =>
        /\ analyze_file_outcome # EmptyResult
        /\ run_classic_analysis(alerts) # run_classic_analysis(EmptyResult.value)
        /\ events = <<>> /\ incidents = <<>>

-----------------------------------------------------------------------------
(* The anomaly detector alone: a baseline never built or built from a        *)
(* population, and detect_anomalies called on groups of events of one IP.    *)

\* the most events one IP has in a population
MaxPerIp == 2

\* the events of a log in which the three IPs have c[1], c[2] and c[3] failed
\* logins
Population(c) ==
    parse_file(Burst("94.102.61.24", c[1]) \o Burst("10.0.0.5", c[2])
               \o Burst("185.210.45.22", c[3]), 1, 0, 0, 0)

Populations == {Population(c) : c \in (0..MaxPerIp) \X (0..MaxPerIp) \X (0..MaxPerIp)}

\* groups as the parser makes them: n failed logins and m accepted ones of one
\* IP, gap seconds apart
ParsedGroups ==
    {parse_file(Burst("94.102.61.24", n) \o Logins("94.102.61.24", m), 1, 0, gap, 0) :
        n \in 0..MaxGroup, m \in 0..1, gap \in LineGaps}

\* the events of a list, last first
Reversed(evs) == [i \in 1..Len(evs) |-> evs[Len(evs) + 1 - i]]

\* the lists passed to detect_anomalies: the groups as parsed and last first
MlGroups == ParsedGroups \cup {Reversed(g) : g \in ParsedGroups}

InitMl ==
    /\ tz = 0
    /\ clock = 0
    /\ memory = NoMemory
    /\ time_engine = NoTimeEngine
    /\ mutation = NoMutation
    /\ pc = "ml"
    /\ file = <<>>
    /\ \/ baselines = NoBaselines /\ events = <<>>
       \/ events \in Populations /\ baselines = build_baseline(events)
    /\ ip_map = <<>>
    /\ user_map = <<>>
    /\ idx = 0
    /\ alerts = <<>>
    /\ returned = <<>>
    /\ seen = <<>>
    /\ unique = <<>>
    /\ processed = <<>>
    /\ before = <<>>
    /\ stats = InitialStats
    /\ incidents = <<>>
    /\ scorer = NoScorer
    /\ intel = NoIntel
    /\ calls = <<>>

\* a call of detect_anomalies on a group
DetectAnomalies(evs) ==
    /\ pc = "ml"
    /\ scorer' = [fn |-> "detect_anomalies", args |-> <<"94.102.61.24", evs>>,
                  out |-> detect_anomalies("94.102.61.24", evs, baselines)]
    /\ UNCHANGED <<tz, clock, memory, time_engine, mutation, pc, file, events,
                   baselines, ip_map, user_map, idx, alerts, returned, seen,
                   unique, processed, before, stats, incidents, intel, calls>>

NextMl == \E evs \in MlGroups : DetectAnomalies(evs)

SpecMl == InitMl /\ [][NextMl]_vars

\* detect_anomalies has been called
Detected == scorer.fn = "detect_anomalies"

\* C16: when the baseline was never built, or was built from an empty event
\* set, detect_anomalies returns 0 whatever the events passed to it.
C16_NoBaselineNoSignal ==
    (Detected /\ events = <<>>) => scorer.out = 0

\* the events passed to the last call of detect_anomalies
Group == scorer.args[2]

\* the IPs of the population the baseline was built from
PopulationIps == {events[i].ip : i \in 1..Len(events)} \ {NoValue}

\* n events are more than 3 times the mean number of events per IP of the
\* population
AboveThreeTimesMean(n) ==
    n * Max(Cardinality(PopulationIps), 1)
        > 3 * Len(SelectSeq(events, LAMBDA e : e.ip # NoValue))

\* C20: with the baseline held fixed, a call of detect_anomalies on at least as
\* many events as the call before never has a smaller frequency-spike
\* contribution; with a baseline built, the contribution is 0.3 exactly when
\* the event count exceeds 3 times the baseline's mean events per IP, else 0.
C20_AnomalyMonotonicity ==
    /\ [][(Detected /\ Detected' /\ baselines' = baselines
           /\ Len(Group') >= Len(Group))
            => frequency_contribution(Group', baselines')
                 >= frequency_contribution(Group, baselines)]_vars
    /\ [](Detected /\ baselines.built =>
            frequency_contribution(Group, baselines)
              = IF AboveThreeTimesMean(Len(Group)) THEN 30 ELSE 0)

\* a baseline built from events of two IPs, three in all, and a group of 5
\* events, the first count above 3 times 1.5: the spike is scored
C20_Witness ==
    /\ Detected
    /\ Cardinality(PopulationIps) = 2 /\ Len(events) = 3
    /\ Len(Group) = 5
    /\ frequency_contribution(Group, baselines) = 30
    /\ scorer.out >= 30

-----------------------------------------------------------------------------
(* The parser alone: parse_line on the lines of a file, one after the other, *)
(* among them lines that several patterns match, each capturing its own ip.  *)

\* the most lines of a file given to the parser
MaxLines == 2

\* the patterns matched by the lines given to the parser
LinePatterns ==
    {"SSH_FAILED_PASSWORD", "FIREWALL_BLOCK", "CONNECTION_ATTEMPT", "BRUTE_FORCE"}

\* the ip each pattern captures in a line that several patterns match, as in
\* "BLOCK SRC=1.1.1.1 DPT=22 SRC=2.2.2.2": BLOCK.*SRC= runs to the last SRC=
CapturedIp ==
    [p \in LinePatterns |->
        CASE p = "SSH_FAILED_PASSWORD" -> "94.102.61.24"
          [] p = "FIREWALL_BLOCK" -> "2.2.2.2"
          [] p = "CONNECTION_ATTEMPT" -> "1.1.1.1"
          [] p = "BRUTE_FORCE" -> "10.0.0.5"]

\* the empty line
BlankLine == [env |-> FALSE, pats |-> {}, blank |-> TRUE]

\* the lines given to the parser: with and without envelope, matched by any
\* set of the patterns, or empty
ParserLines ==
    {[env |-> e, pats |-> ps, ips |-> CapturedIp, user |-> "root"] :
        e \in BOOLEAN, ps \in SUBSET LinePatterns}
    \cup {BlankLine}

\* the files given to the parser
ParserFiles == UNION {[1..n -> ParserLines] : n \in 0..MaxLines}

InitParse ==
    /\ tz \in TzOffsets
    /\ clock = 0
    /\ memory = NoMemory
    /\ time_engine = NoTimeEngine
    /\ mutation = NoMutation
    /\ pc = "parse"
    /\ file \in ParserFiles
    /\ events = <<>>
    /\ baselines = NoBaselines
    /\ ip_map = <<>>
    /\ user_map = <<>>
    /\ idx = 1
    /\ alerts = <<>>
    /\ returned = <<>>
    /\ seen = <<>>
    /\ unique = <<>>
    /\ processed = <<>>
    /\ before = <<>>
    /\ stats = InitialStats
    /\ incidents = <<>>
    /\ scorer = NoScorer
    /\ intel = NoIntel
    /\ calls = <<>>

\* one iteration of the loop of _parse_file: parse_line on the next line, the
\* event kept if there is one; returned keeps what each call returned
ParseLine(gap) ==
    LET parsed == parse_line(file[idx], clock + tz)
    IN  /\ pc = "parse"
        /\ idx <= Len(file)
        /\ returned' = Append(returned, parsed)
        /\ events' = IF parsed = <<>> THEN events
                     ELSE Append(events, parsed[1] @@ [LINE_NUMBER |-> idx])
        /\ stats' = [stats EXCEPT !.TOTAL_LINES = Len(file),
                                  !.PARSED_EVENTS = Len(events')]
        /\ idx' = idx + 1
        /\ clock' = clock + gap
        /\ UNCHANGED <<tz, memory, time_engine, mutation, pc, file, baselines,
                       ip_map, user_map, alerts, seen, unique, processed, before,
                       incidents, scorer, intel, calls>>

NextParse == \E gap \in LineGaps : ParseLine(gap)

SpecParse == InitParse /\ [][NextParse]_vars

\* the place of a pattern in the pattern table
TableIndex(p) == CHOOSE i \in 1..Len(PatternOrder) : PatternOrder[i] = p

\* the pattern of the line that comes first in the pattern table
EarliestPattern(line) ==
    CHOOSE p \in line.pats : \A q \in line.pats : TableIndex(p) <= TableIndex(q)

\* C17: the event parse_line returns for a line that some pattern matches is
\* tagged with the earliest matching pattern of the table and carries the
\* fields that pattern captured, whatever later patterns match as well and
\* whatever lines were parsed before.
C17_FirstMatchWins ==
    \A k \in 1..Len(returned) :
        (~is_blank(file[k]) /\ file[k].pats # {}) =>
            /\ returned[k] # <<>>
            /\ returned[k][1].EVENT_TYPE = EarliestPattern(file[k])
            /\ returned[k][1].ip = file[k].ips[EarliestPattern(file[k])]
            /\ returned[k][1].user
                 = IF EarliestPattern(file[k]) \in UserPatterns
                   THEN file[k].user ELSE NoValue

\* the second line of a file, matched by FIREWALL_BLOCK and CONNECTION_ATTEMPT,
\* is tagged FIREWALL_BLOCK with the ip that pattern captured, after a first
\* line tagged otherwise
C17_Witness ==
    /\ Len(returned) = 2
    /\ file[2].pats = {"FIREWALL_BLOCK", "CONNECTION_ATTEMPT"}
    /\ returned[1] # <<>> /\ returned[1][1].EVENT_TYPE = "CONNECTION_ATTEMPT"
    /\ returned[2][1].EVENT_TYPE = "FIREWALL_BLOCK"
    /\ returned[2][1].ip = "2.2.2.2"

\* no pattern matches the line
NoPattern(line) == is_blank(line) \/ line.pats = {}

\* the syslog envelope matches the line
Envelope(line) == ~is_blank(line) /\ line.env

\* C18: for a line no pattern matches, parse_line returns an event tagged
\* SYSLOG_GENERIC if the envelope matched and None if it did not; it returns
\* None for no other line than one with no pattern and no envelope, the empty
\* line among them.
C18_FallThrough ==
    \A k \in 1..Len(returned) :
        /\ (NoPattern(file[k]) /\ Envelope(file[k])) =>
              (returned[k] # <<>> /\ returned[k][1].EVENT_TYPE = "SYSLOG_GENERIC")
        /\ returned[k] = <<>> <=> (NoPattern(file[k]) /\ ~Envelope(file[k]))

\* an envelope-only line gave a SYSLOG_GENERIC event, then the empty line gave
\* None
C18_Witness ==
    /\ Len(returned) = 2
    /\ NoPattern(file[1]) /\ Envelope(file[1])
    /\ returned[1] # <<>> /\ returned[1][1].EVENT_TYPE = "SYSLOG_GENERIC"
    /\ is_blank(file[2]) /\ returned[2] = <<>>
    /\ Len(events) = 1

-----------------------------------------------------------------------------
(* The groups _correlate makes and the analyses it invokes.                  *)

\* _correlate is over: every group has been analysed
Correlated == pc \in {"dedup", "finish", "done"}

\* the calls of a rule on a key
CallsOf(rule, key) ==
    SelectSeq(calls, LAMBDA c : c.rule = rule /\ c.key = key)

\* the values a field takes in the events of the log
KeysOf(field) == {events[i][field] : i \in 1..Len(events)} \ {NoValue}

\* the rule was invoked once on each key of the field and on nothing else,
\* each time with the events of the log that carry the key, in input order
Partitioned(rule, field) ==
    /\ \A key \in KeysOf(field) :
          /\ Len(CallsOf(rule, key)) = 1
          /\ CallsOf(rule, key)[1].events
               = SelectSeq(events, LAMBDA e : e[field] = key)
    /\ Len(SelectSeq(calls, LAMBDA c : c.rule = rule))
         = Cardinality(KeysOf(field))

\* C19: once _correlate is over, the IP analysis has been invoked exactly once
\* for each distinct ip and the user analysis exactly once for each distinct
\* user, each on exactly the events of the log that carry that ip or user, in
\* input order: an event with both is in both groups, one with neither in none.
C19_CorrelatorPartitioning ==
    Correlated =>
        /\ Partitioned("_analyze_ip", "ip")
        /\ Partitioned("_analyze_user", "user")

\* a log with an event that has an ip and no user, events with both and an
\* event with neither; an IP whose group is made of events lines apart
C19_Witness ==
    /\ Correlated
    /\ \E i, j, k \in 1..Len(events) :
          /\ events[i].ip # NoValue /\ events[i].user = NoValue
          /\ events[j].ip = NoValue /\ events[j].user = NoValue
          /\ events[k].ip = events[i].ip /\ events[k].user # NoValue
          /\ i > k + 1
    /\ Len(calls) = Cardinality(KeysOf("ip")) + Cardinality(KeysOf("user"))
    /\ Cardinality(KeysOf("user")) >= 1

-----------------------------------------------------------------------------
(* The legacy engine's rule for one IP.                                      *)

\* the failed logins of the group inside the window of the call
FailedOfGroup ==
    Len(SelectSeq(events, LAMBDA e :
        /\ HasFAILED(e.EVENT_TYPE)
        /\ e.INGEST_TIME > clock - timedelta_minutes(FAILED_LOGIN_WINDOW_MINUTES)))

\* the accepted logins of the group
AcceptedOfGroup == Len(SelectSeq(events, LAMBDA e : HasACCEPTED(e.EVENT_TYPE)))

\* C21: the legacy engine suppresses an IP only when its accepted logins reach
\* FP_SUCCESSFUL_LOGIN_THRESHOLD and its failed logins in the window are below
\* FAILED_LOGIN_THRESHOLD, so an IP with at least FAILED_LOGIN_THRESHOLD failed
\* logins in the window gets an SSH_BRUTE_FORCE alert whatever its accepted
\* logins.
C21_LegacySuppressionRule ==
    pc = "legacy_returned" =>
        /\ returned[1].suppressed =>
              /\ AcceptedOfGroup >= FP_SUCCESSFUL_LOGIN_THRESHOLD
              /\ FailedOfGroup < FAILED_LOGIN_THRESHOLD
        /\ FailedOfGroup >= FAILED_LOGIN_THRESHOLD =>
              \E i \in 1..Len(alerts) : alerts[i].THREAT_TYPE = "SSH_BRUTE_FORCE"

-----------------------------------------------------------------------------
(* The window of _deduplicate.                                               *)

\* the positions before i whose alert was filed under the key of alert i and
\* kept
KeptBefore(i) ==
    {j \in 1..(i - 1) : dedup_key(alerts[j]) = dedup_key(alerts[i])
                        /\ processed[j].kept}

\* the last position of a non-empty set of positions
Last(S) == CHOOSE i \in S : \A j \in S : j <= i

\* C22: the window runs from the last kept alert of the key: an alert is
\* dropped exactly when a kept alert of its key was processed less than
\* ALERT_DEDUP_WINDOW_MINUTES before it, however many alerts of the key were
\* dropped in between, and the last-seen entry of a key is the time its last
\* kept alert was processed.
C22_WindowFromLastKept ==
    /\ \A i \in 1..Len(processed) :
          processed[i].kept <=>
              \/ KeptBefore(i) = {}
              \/ processed[i].at - processed[Last(KeptBefore(i))].at
                    >= timedelta_minutes(ALERT_DEDUP_WINDOW_MINUTES)
    /\ \A i \in 1..Len(processed) :
          LET mine == {j \in 1..Len(processed) :
                          dedup_key(alerts[j]) = dedup_key(alerts[i])
                          /\ processed[j].kept}
          IN  /\ dedup_key(alerts[i]) \in DOMAIN seen
              /\ seen[dedup_key(alerts[i])] = processed[Last(mine)].at

\* three alerts of one key: the second, half a window after the first, was
\* dropped; the third, a full window after the first and half a window after
\* the dropped one, was kept
C22_Witness ==
    /\ Len(processed) = 3
    /\ dedup_key(alerts[1]) = dedup_key(alerts[2])
    /\ dedup_key(alerts[2]) = dedup_key(alerts[3])
    /\ processed[1].kept /\ ~processed[2].kept /\ processed[3].kept
    /\ processed[3].at - processed[2].at
         < timedelta_minutes(ALERT_DEDUP_WINDOW_MINUTES)
    /\ processed[3].at - processed[1].at
         = timedelta_minutes(ALERT_DEDUP_WINDOW_MINUTES)

-----------------------------------------------------------------------------
(* The analyses of _correlate in any order: after parsing and the baseline,  *)
(* the groups of the two maps are analysed one at a time, whichever comes    *)
(* next, each on the engine's state as the analyses before it left it.       *)

\* s without its elements equal to x
Without(s, x) == SelectSeq(s, LAMBDA y : y # x)

InitOrder ==
    /\ tz = 0
    /\ \E w \in Wirings :
         /\ memory = w.memory
         /\ time_engine = w.time_engine
         /\ mutation = w.mutation
    /\ pc = "correlate"
    /\ file \in Files
    /\ \E gap \in LineGaps :
         /\ events = parse_file(file, 1, 0, gap, 0)
         /\ clock = Len(file) * gap
    /\ baselines = IF ENABLE_ML_ANOMALY_DETECTION THEN build_baseline(events)
                   ELSE NoBaselines
    /\ ip_map = Distinct([i \in 1..Len(SelectSeq(events, LAMBDA e : e.ip # NoValue))
                            |-> SelectSeq(events, LAMBDA e : e.ip # NoValue)[i].ip])
    /\ user_map = Distinct([i \in 1..Len(SelectSeq(events, LAMBDA e : e.user # NoValue))
                            |-> SelectSeq(events, LAMBDA e : e.user # NoValue)[i].user])
    /\ idx = 1
    /\ alerts = <<>>
    /\ returned = <<>>
    /\ seen = <<>>
    /\ unique = <<>>
    /\ processed = <<>>
    /\ before = <<>>
    /\ stats = [InitialStats EXCEPT !.TOTAL_LINES = Len(file),
                                    !.PARSED_EVENTS = Len(events)]
    /\ incidents = <<>>
    /\ scorer = NoScorer
    /\ intel = NoIntel
    /\ calls = <<>>

\* _analyze_ip on the group of an IP not analysed yet; returned files what the
\* call computed under the IP
AnalyzeAnyIp(ip) ==
    LET evs == ip_events(events, ip)
        r == analyze_ip(ip, evs, clock, baselines, memory, time_engine)
    IN  /\ pc = "correlate"
        /\ ip \in Range(ip_map)
        /\ ip_map' = Without(ip_map, ip)
        /\ returned' = [k \in DOMAIN returned \cup {ip} |->
                          IF k = ip THEN r ELSE returned[k]]
        /\ baselines' = baseline_after(baselines, evs)
        /\ alerts' = alerts \o r.alerts
        /\ stats' = [stats EXCEPT
                        !.ML_ANOMALIES_DETECTED = IF r.anomaly THEN @ + 1 ELSE @,
                        !.FALSE_POSITIVES_SUPPRESSED = IF r.suppressed THEN @ + 1 ELSE @]
        /\ incidents' = IF r.alerts # <<>>
                        THEN upsert_incident(incidents, r.alerts[1], clock)
                        ELSE incidents
        /\ UNCHANGED <<tz, clock, memory, time_engine, mutation, pc, file, events,
                       user_map, idx, seen, unique, processed, before, scorer,
                       intel, calls>>

\* _analyze_user on the group of a user not analysed yet
AnalyzeAnyUser(user) ==
    LET r == analyze_user(user, user_events(events, user), clock)
    IN  /\ pc = "correlate"
        /\ user \in Range(user_map)
        /\ user_map' = Without(user_map, user)
        /\ alerts' = alerts \o r
        /\ incidents' = IF r # <<>> THEN upsert_incident(incidents, r[1], clock)
                        ELSE incidents
        /\ UNCHANGED <<tz, clock, memory, time_engine, mutation, pc, file, events,
                       baselines, ip_map, returned, idx, seen, unique, processed,
                       before, stats, scorer, intel, calls>>

NextOrder ==
    \/ \E ip \in Range(IpList) : AnalyzeAnyIp(ip)
    \/ \E user \in {"root", "carol", "bob", "alice"} : AnalyzeAnyUser(user)

SpecOrder == InitOrder /\ [][NextOrder]_vars

\* what the analysis of an IP of the log gives on the baseline of the log,
\* with no other group analysed before it
Alone(ip) ==
    analyze_ip(ip, SelectSeq(events, LAMBDA e : e.ip = ip), clock,
               build_baseline(events), memory, time_engine)

\* the IPs and the users of the log
LogIps == {events[i].ip : i \in 1..Len(events)} \ {NoValue}
LogUsers == {events[i].user : i \in 1..Len(events)} \ {NoValue}

\* the candidate alerts of the sequential run
SequentialAlerts ==
    UNION {Range(Alone(ip).alerts) : ip \in LogIps}
    \cup UNION {Range(analyze_user(u, SelectSeq(events, LAMBDA e : e.user = u), clock)) :
                    u \in LogUsers}

-----------------------------------------------------------------------------
(* The cache of the live lookups.                                            *)

\* the lookup made by this step, with the lookups on
Lookup == intel.enabled /\ intel'.out # <<>> /\ intel' # intel

\* the entry of a provider for the IP looked up was stored less than 24 hours
\* before the time of this step's lookup
Fresh(provider) ==
    /\ <<provider, intel.ip>> \in DOMAIN intel.cache
    /\ clock' - intel.cache[<<provider, intel.ip>>].ts < 24 * 3600

\* this step's call of a provider returned None
ReturnedNone(resp) ==
    CallFailed(resp) \/ NotJson(resp) \/ (MissingFields(resp) /\ ~resp.path)

\* what this step did for one provider, whose answer and result are given
CacheRule(provider, called, resp, ret) ==
    /\ Fresh(provider) =>
          /\ ~called
          /\ ret = <<intel.cache[<<provider, intel.ip>>].data>>
          /\ intel'.cache[<<provider, intel.ip>>] = intel.cache[<<provider, intel.ip>>]
    /\ ~Fresh(provider) => called
    /\ (called /\ ret = <<>>) =>
          /\ <<provider, intel.ip>> \in DOMAIN intel'.cache
               <=> <<provider, intel.ip>> \in DOMAIN intel.cache
          /\ <<provider, intel.ip>> \in DOMAIN intel.cache =>
               intel'.cache[<<provider, intel.ip>>] = intel.cache[<<provider, intel.ip>>]
    /\ (called /\ ret # <<>>) =>
          intel'.cache[<<provider, intel.ip>>] = [data |-> ret[1], ts |-> clock']

\* C24: a result stored for (provider, IP) is returned without a network call
\* by every request made less than 24 hours after it was stored, and a request
\* made 24 hours after it or later calls the provider again; a lookup that
\* fails stores nothing, so the next request calls again; what is stored for
\* one provider is never returned for the other.
C24_LiveLookupCache ==
    [][Lookup =>
        /\ CacheRule("ABUSE", intel'.out[1].abuse_called, intel'.abuse_resp,
                     intel'.out[1].abuse)
        /\ CacheRule("VT", intel'.out[1].vt_called, intel'.vt_resp,
                     intel'.out[1].vt)
        /\ intel'.out[1].abuse # <<>> =>
              DOMAIN intel'.out[1].abuse[1] = {"CONFIDENCE_SCORE"}
        /\ intel'.out[1].vt # <<>> => DOMAIN intel'.out[1].vt[1] = {"MALICIOUS"}
      ]_vars

\* the AbuseIPDB entry stored at 0 was served from the cache a second before
\* it expired, while VirusTotal, whose first call failed, was called again
C24_Witness ==
    /\ intel.enabled /\ intel.out # <<>>
    /\ clock = cache_expiry - 1
    /\ ~intel.out[1].abuse_called
    /\ intel.out[1].abuse # <<>>
    /\ intel.cache[<<"ABUSE", intel.ip>>].ts = 0
    /\ intel.out[1].vt_called
    /\ <<"VT", intel.ip>> \in DOMAIN intel.cache
    /\ intel.cache[<<"VT", intel.ip>>].ts = cache_expiry - 1

-----------------------------------------------------------------------------
(* The burst indicator of detect_anomalies.                                  *)

\* the INGEST_TIMEs of the events of the last call, in increasing order: the
\* k-th is the stamp that has fewer than k stamps before it, ties by position
SortedStamps ==
    [k \in 1..Len(Group) |->
        LET rank(i) == Cardinality({j \in 1..Len(Group) :
                          \/ Group[j].INGEST_TIME < Group[i].INGEST_TIME
                          \/ (Group[j].INGEST_TIME = Group[i].INGEST_TIME /\ j < i)})
        IN  Group[CHOOSE i \in 1..Len(Group) : rank(i) = k - 1].INGEST_TIME]

\* at least 3 events, and the gaps between events consecutive in timestamp
\* order average less than 5 seconds
BurstInTimestampOrder ==
    /\ Len(Group) >= 3
    /\ SumSeq(time_diffs(SortedStamps)) < 5 * (Len(Group) - 1)

\* C25: the burst indicator is scored exactly when the entity has at least 3
\* events whose gaps, taken in timestamp order, average under 5 seconds, so
\* the score of detect_anomalies does not depend on the order of the events.
C25_BurstTimingSorted ==
    (Detected /\ baselines.built) =>
        /\ rapid_activity(Group) <=> BurstInTimestampOrder
        /\ scorer.out = detect_anomalies(scorer.args[1], Reversed(Group), baselines)

-----------------------------------------------------------------------------
(* False-positive reduction on and off.                                      *)

\* what the call of _analyze_ip gives with ENABLE_FP_REDUCTION off
WithoutReduction ==
    analyze_ip_with(FALSE, ip_map[1], events, clock, baselines, memory, time_engine)

\* C26: for every IP group and every pain_bias, _analyze_ip returns with
\* ENABLE_FP_REDUCTION on the list it returns with it off; the two settings
\* differ in the FALSE_POSITIVES_SUPPRESSED counter only.
C26_ReductionRemovesNothing ==
    pc = "returned" =>
        /\ returned[1].alerts = WithoutReduction.alerts
        /\ [returned[1] EXCEPT !.suppressed = FALSE] = WithoutReduction
        /\ ~WithoutReduction.suppressed
        /\ stats.FALSE_POSITIVES_SUPPRESSED = IF returned[1].suppressed THEN 1 ELSE 0

\* an IP at both thresholds, with a pain index below 0.3: the alert is
\* returned with the reduction on as with it off
C26_Witness ==
    /\ pc = "returned"
    /\ returned[1].success >= FP_SUCCESSFUL_LOGIN_THRESHOLD
    /\ returned[1].failed >= FAILED_LOGIN_THRESHOLD
    /\ returned[1].pain_bias < 30 /\ memory.injected
    /\ returned[1].alerts # <<>>
    /\ returned[1].alerts = WithoutReduction.alerts

-----------------------------------------------------------------------------
(* The candidates of one run.                                                *)

\* the positions of the candidates of a threat type
OfType(type) == {i \in 1..Len(alerts) : alerts[i].THREAT_TYPE = type}

\* _correlate has returned: _deduplicate is at work on its list or done with it
Candidates == pc \in {"dedup", "finish"} /\ Len(processed) <= Len(alerts)

\* C27: _correlate returns at most one SSH_BRUTE_FORCE alert per IP and at
\* most one POTENTIAL_ACCOUNT_COMPROMISE alert per user, the IP alerts before
\* the user alerts; _deduplicate drops no SSH_BRUTE_FORCE alert of the run.
C27_OneAlertPerEntity ==
    Candidates =>
        /\ \A i, j \in OfType("SSH_BRUTE_FORCE") :
              alerts[i].SOURCE_IP = alerts[j].SOURCE_IP => i = j
        /\ \A i, j \in OfType("POTENTIAL_ACCOUNT_COMPROMISE") :
              alerts[i].USERNAME = alerts[j].USERNAME => i = j
        /\ \A i \in OfType("SSH_BRUTE_FORCE") :
              \A j \in OfType("POTENTIAL_ACCOUNT_COMPROMISE") : i < j
        /\ \A i \in 1..Len(processed) :
              i \in OfType("SSH_BRUTE_FORCE") => processed[i].kept

\* _deduplicate is through a list with brute-force alerts of two IPs, met
\* within the window of each other, and has kept both
C27_Witness ==
    /\ pc = "finish" /\ Len(processed) = Len(alerts)
    /\ Cardinality(OfType("SSH_BRUTE_FORCE")) >= 2
    /\ \A i \in OfType("SSH_BRUTE_FORCE") : processed[i].kept
    /\ \A i, j \in OfType("SSH_BRUTE_FORCE") :
          processed[j].at - processed[i].at < timedelta_minutes(ALERT_DEDUP_WINDOW_MINUTES)

-----------------------------------------------------------------------------
(* The stored incidents and the returned alerts.                             *)

\* the stored incidents of an alert
StoredUnder(a) == {i \in 1..Len(incidents) : incidents[i].alert_id = a.ALERT_ID}

\* C28: after analyze_file returns, the incident stored under the ALERT_ID of
\* every returned alert has that alert's final THREAT_LEVEL as its severity,
\* also when the breach pressure raised the alert from HIGH to CRITICAL.
C28_StoredSeverityMatches ==
    pc = "done" =>
        \A i \in 1..Len(alerts) :
            /\ StoredUnder(alerts[i]) # {}
            /\ \A r \in StoredUnder(alerts[i]) :
                  incidents[r].severity = alerts[i].THREAT_LEVEL

-----------------------------------------------------------------------------
(* Threat levels, risk scores and the counters of _finalize_stats.           *)

\* _apply_time_pressure leaves the levels as they are
NoEscalation ==
    \/ ~time_engine.injected
    \/ time_engine.breach_clock <= BREACH_PROBABILITY_WARNING

ThreatLevels == {"CRITICAL", "HIGH", "MEDIUM"}

\* C29: with no breach-pressure escalation, every SSH_BRUTE_FORCE alert
\* returned is CRITICAL iff RISK_SCORE >= 80, HIGH iff 60 <= RISK_SCORE <= 79
\* and MEDIUM iff RISK_SCORE < 60; every returned alert has one of the three
\* levels, and THREATS_DETECTED = CRITICAL_THREATS + HIGH_THREATS +
\* MEDIUM_THREATS = the number of returned alerts.
C29_LevelFollowsRisk ==
    pc = "done" =>
        /\ NoEscalation =>
              \A i \in OfType("SSH_BRUTE_FORCE") :
                  LET a == alerts[i]
                  IN  /\ a.THREAT_LEVEL = "CRITICAL" <=> a.RISK_SCORE >= 80
                      /\ a.THREAT_LEVEL = "HIGH" <=>
                            (60 <= a.RISK_SCORE /\ a.RISK_SCORE <= 79)
                      /\ a.THREAT_LEVEL = "MEDIUM" <=> a.RISK_SCORE < 60
        /\ \A i \in 1..Len(alerts) : alerts[i].THREAT_LEVEL \in ThreatLevels
        /\ stats.THREATS_DETECTED = Len(alerts)
        /\ stats.THREATS_DETECTED =
              stats.CRITICAL_THREATS + stats.HIGH_THREATS + stats.MEDIUM_THREATS

\* a run without escalation returns a HIGH brute-force alert of risk 60 to 69
\* beside an alert of another level
C29_Witness ==
    /\ pc = "done" /\ NoEscalation
    /\ \E i \in OfType("SSH_BRUTE_FORCE") :
          /\ alerts[i].THREAT_LEVEL = "HIGH"
          /\ alerts[i].RISK_SCORE < 70
    /\ \E i \in 1..Len(alerts) : alerts[i].THREAT_LEVEL # "HIGH"
    /\ stats.THREATS_DETECTED = Len(alerts)

-----------------------------------------------------------------------------
(* Several analyze_file calls on one engine instance.                        *)

\* no further call once PARSED_EVENTS is above this
MaxParsed == 6

\* the files of at most one block
RunFiles == FilesOf(1)

\* an engine with nothing injected, on a host on UTC
InitRuns ==
    /\ Init
    /\ tz = 0
    /\ ~memory.injected /\ ~time_engine.injected /\ ~mutation.injected

\* analyze_file on an engine whose last analyze_file has returned
AnalyzeNextFile(f, gap) ==
    /\ stats.PARSED_EVENTS <= MaxParsed
    /\ AnalyzeFileAt("done", f, gap)

NextRuns ==
    \/ \E f \in RunFiles, gap \in LineGaps : AnalyzeFile(f, gap)
    \/ \E f \in RunFiles, gap \in LineGaps : AnalyzeNextFile(f, gap)
    \/ AnalyzeIp
    \/ AnalyzeUser
    \/ Deduplicate
    \/ Finish

SpecRuns == InitRuns /\ [][NextRuns]_vars

\* the _analyze_ip calls of the last analyze_file, by what they came to
IpCallsOf(field) ==
    {i \in 1..Len(calls) :
        /\ calls[i].rule = "_analyze_ip"
        /\ analyze_ip(calls[i].key, calls[i].events, clock, baselines, memory,
                      time_engine)[field]}

\* C30: after every analyze_file call of a sequence of calls on one engine,
\* PARSED_EVENTS <= TOTAL_LINES, PARSED_EVENTS is the number of events parsed
\* from the file of that call, and FALSE_POSITIVES_SUPPRESSED and
\* ML_ANOMALIES_DETECTED count the entities of that call only.
C30_StatsOfLatestRun ==
    pc = "done" =>
        /\ stats.PARSED_EVENTS <= stats.TOTAL_LINES
        /\ stats.PARSED_EVENTS = Len(events)
        /\ stats.FALSE_POSITIVES_SUPPRESSED = Cardinality(IpCallsOf("suppressed"))
        /\ stats.ML_ANOMALIES_DETECTED = Cardinality(IpCallsOf("anomaly"))

=============================================================================
